---- MODULE Spec2Model ----
(***************************************************************************)
(* openjob: discovery-and-dispatch core.                                   *)
(*   - linkedin_scraper.py : scrape_with_playwright (two-phase engine),    *)
(*                           get_new_jobs (fallback controller)            *)
(*   - main.py             : run (orchestrator), process_job (per-item)    *)
(*   - resume_tailor.py / cover_letter.py : generation backends with the   *)
(*                           quota flag                                    *)
(***************************************************************************)
EXTENDS Integers, Sequences, FiniteSets, TLC

(***************************************************************************)
(* Bounds of the model.                                                    *)
(***************************************************************************)
MaxId     == 4      \* postings the listings source can show: 1..MaxId
MaxCards  == 2      \* cards with a parsable identifier on one result page
MaxAge    == 1000   \* largest known age in days of a posting
MaxTarget == 2      \* largest per-category target_count
MaxRun    == 3      \* largest max_candidates (MAX_JOBS_PER_RUN)
MaxJobs   == 2      \* most items dispatched to the worker pool
MaxOld    == 2      \* most entries of a manifest found on disk
MaxLines  == 3      \* most lines handed to _send_chunked

Ids  == 1..MaxId
Cats == {"sde", "ai"}
NoAge == -1         \* _days_ago(...) is None

(***************************************************************************)
(* Program constants.                                                      *)
(***************************************************************************)
MAX_PAGES_PER_SEARCH == 3
CARDS_PER_PAGE       == 25
MAX_DAYS_OLD         == 1
JOB_WORKERS          == 2
DISCORD_LIMIT        == 1900

SEARCH_LOCATIONS      == <<"Remote">>
SDE_KEYWORDS          == <<"software engineer">>
SDE_BOOST_KEYWORDS    == <<"new grad">>
SDE_EXPERIENCE_LEVELS == <<3, 4>>
AI_KEYWORDS           == <<"ai engineer">>
AI_BOOST_KEYWORDS     == <<>>
AI_EXPERIENCE_LEVELS  == <<3, 4>>

\* an absent override (stage.get(...) or None) is the empty sequence
FALLBACK_STAGES ==
  << [label |-> "any-age", max_days_old |-> 0,
      sde_experience_levels |-> <<>>, ai_experience_levels |-> <<>>],
     [label |-> "entry-level", max_days_old |-> 0,
      sde_experience_levels |-> <<2, 3>>, ai_experience_levels |-> <<>>] >>

VARIABLES
  TARGET,            \* TARGET_SDE_JOBS / TARGET_AI_JOBS, by category
  MAX_JOBS_PER_RUN,  \* max_candidates
  seenFile,          \* "seen_ids" of SEEN_JOBS_FILE
  seen,              \* the in-memory seen set of get_new_jobs / run
  pc,                \* position of run / get_new_jobs
  sphase,            \* position inside scrape_with_playwright
  seen_in,           \* the seen set as it was passed to the running engine call
  plan,              \* search_plan of the running engine call
  eff_days,          \* effective_max_days of the running engine call
  all_ids,           \* all_ids
  cand,              \* sde_candidates / ai_candidates, by category
  search_idx,        \* index of the plan entry being processed
  page_num,          \* page_num of the pagination loop
  load_failed,       \* the running engine call has logged a "load failed"
  candidates,        \* trimmed, sorted list handed to phase 2
  jobs,              \* list returned by the last engine call (jobs / more)
  acc,               \* sde / ai accumulated by get_new_jobs, by category
  stage,             \* number of fallback stages started
  selected,          \* list returned by get_new_jobs
  manifest,          \* jobs_<date>.json as an ordered url -> projection map
  results,           \* results of run
  report,            \* whether send_discord_report was called, and with what
  LLM_MODE,          \* the LLM_MODE environment variable
  fut,               \* state of each process_job future of the pool
  tailor,            \* tailor_resume sub-task of each item
  cover,             \* generate_cover_letter sub-task of each item
  rendered,          \* outcome of html_to_pdf for each item ("no": not called)
  ret,               \* value returned by each process_job
  rt_CLAUDE_LIMIT_HIT,   \* resume_tailor._CLAUDE_LIMIT_HIT
  cl_CLAUDE_LIMIT_HIT,   \* cover_letter._CLAUDE_LIMIT_HIT
  rt_FALLBACK_LOCK,      \* resume_tailor._FALLBACK_LOCK: holder item or 0
  cl_FALLBACK_LOCK,      \* cover_letter._FALLBACK_LOCK: holder item or 0
  quota_errors,      \* external invocations that ended in a quota error, by module
  fetched,           \* page loads attempted by engine call number .call
  twin,              \* the first of two primary passes over the same listings
  lines,             \* lines passed to _send_chunked
  line_no,           \* position of the loop over lines
  chunk,             \* chunk of _send_chunked
  chunk_len,         \* chunk_len of _send_chunked
  posts,             \* payloads handed to _post, in order
  disk,              \* files under OUTPUT_DIR/<date>
  dirs,              \* directories there are: OUTPUT_DIR/<date> and below it
  cmd,               \* position of the running cli command
  failed,            \* failed of cmd_retry_day
  retry_results,     \* results of cmd_retry_day
  result,            \* result of cmd_retry / cmd_retry_day
  ok,                \* ok of cmd_retry_day, once logged
  retry_job,         \* job of cmd_retry
  called,            \* items process_job was called for by the running command
  invoked            \* identifiers process_job was ever called for

cfgVars == <<TARGET, MAX_JOBS_PER_RUN, LLM_MODE>>
engVars == <<sphase, seen_in, plan, eff_days, all_ids, cand, search_idx,
             page_num, load_failed, candidates, jobs>>
ctlVars == <<acc, stage, selected>>
runVars == <<manifest, results, report>>
llmVars == <<rt_CLAUDE_LIMIT_HIT, cl_CLAUDE_LIMIT_HIT, rt_FALLBACK_LOCK,
             cl_FALLBACK_LOCK, quota_errors>>
jobVars == <<fut, tailor, cover, rendered, ret>>
notVars == <<lines, line_no, chunk, chunk_len, posts>>
cliVars == <<disk, dirs, cmd, failed, retry_results, result, ok, retry_job, called,
             invoked>>
cntVars == <<fetched>>
sideVars == <<twin, notVars, cliVars, cntVars>>
vars    == <<cfgVars, seenFile, seen, pc, engVars, ctlVars, runVars, llmVars,
             jobVars, sideVars>>

(***************************************************************************)
(* Small helpers.                                                          *)
(***************************************************************************)
Min(a, b) == IF a <= b THEN a ELSE b
Max(a, b) == IF a >= b THEN a ELSE b
Elems(s)  == {s[i] : i \in 1..Len(s)}
SeqsUpTo(S, n) == UNION {[1..k -> S] : k \in 0..n}

\* Python s[:n] for n >= 0
Take(s, n) == SubSeq(s, 1, Min(n, Len(s)))

(***************************************************************************)
(* _location_match: lower-casing, "remote" test, city token containment.   *)
(* Strings are taken from the finite set the model uses; lower() and the   *)
(* substring test are tabulated on that set.                               *)
(***************************************************************************)
CardLocs == {"Remote", "San Francisco, CA"}

Lower(s) ==
  CASE s = "Remote"            -> "remote"
    [] s = "San Francisco, CA" -> "san francisco, ca"
    [] OTHER                   -> s

\* needle in hay (Python substring test) on lower-cased model strings
InStr(needle, hay) ==
  \/ needle = ""
  \/ needle = hay
  \/ needle = "san francisco" /\ hay = "san francisco, ca"

\* ql.split(",")[0].strip()
CityOf(ql) == IF ql = "san francisco, ca" THEN "san francisco" ELSE ql

_location_match(job_location, query_location) ==
  LET jl == Lower(job_location)
      ql == Lower(query_location)
  IN  IF jl = "" THEN FALSE
      ELSE IF InStr("remote", ql) THEN InStr("remote", jl)
      ELSE InStr(CityOf(ql), jl)

(***************************************************************************)
(* The postings of the listings source.  A card of a result page carries   *)
(* the identifier from its href, its location text and the age _days_ago   *)
(* derives from its <time> element (NoAge when None).  A posting shows the *)
(* same location and age on every page it appears on.                      *)
(***************************************************************************)
PostingLoc(id) == IF id % 4 = 0 THEN "San Francisco, CA" ELSE "Remote"
PostingAge(id) == CASE id % 3 = 1 -> 0
                    [] id % 3 = 2 -> NoAge
                    [] OTHER      -> MaxAge
\* what _fetch_jd gets from the posting's detail page: the text of the first
\* matching selector, or "" when none matches or the fetch raises
PostingJD(id)  == IF id % 2 = 0 THEN "" ELSE "JD"
\* the organization of the posting; postings of one organization share the
\* output directory <date>/<company_slug>
PostingCompany(id) == IF id % 3 = 0 THEN "Bolt" ELSE "Acme"
Cards == {[id |-> i, loc |-> PostingLoc(i), age |-> PostingAge(i)] : i \in Ids}

\* _parse_cards without the test against the seen set
RECURSIVE _parse_cards_NoSeen(_, _, _, _, _)
_parse_cards_NoSeen(cards, seenSet, existing_ids, location, max_days) ==
  IF cards = <<>> THEN <<>>
  ELSE
    LET card == Head(cards)
        rest == _parse_cards_NoSeen(Tail(cards), seenSet, existing_ids, location,
                                    max_days)
    IN  IF card.id \in existing_ids THEN rest
        ELSE IF ~ _location_match(card.loc, location) THEN rest
        ELSE IF max_days > 0 /\ card.age # NoAge /\ card.age > max_days THEN rest
        ELSE <<[job_id |-> card.id,
                days_old |-> IF card.age # NoAge THEN card.age ELSE -1]>> \o rest

\* _parse_cards with the age test made whatever the ceiling is
RECURSIVE _parse_cards_ZeroCeiling(_, _, _, _, _)
_parse_cards_ZeroCeiling(cards, seenSet, existing_ids, location, max_days) ==
  IF cards = <<>> THEN <<>>
  ELSE
    LET card == Head(cards)
        rest == _parse_cards_ZeroCeiling(Tail(cards), seenSet, existing_ids, location,
                                         max_days)
    IN  IF card.id \in seenSet \/ card.id \in existing_ids THEN rest
        ELSE IF ~ _location_match(card.loc, location) THEN rest
        ELSE IF card.age # NoAge /\ card.age > max_days THEN rest
        ELSE <<[job_id |-> card.id,
                days_old |-> IF card.age # NoAge THEN card.age ELSE -1]>> \o rest

RECURSIVE _parse_cards(_, _, _, _, _)
_parse_cards(cards, seenSet, existing_ids, location, max_days) ==
  IF cards = <<>> THEN <<>>
  ELSE
    LET card == Head(cards)
        rest == _parse_cards(Tail(cards), seenSet, existing_ids, location, max_days)
    IN  IF card.id \in seenSet \/ card.id \in existing_ids THEN rest
        ELSE IF ~ _location_match(card.loc, location) THEN rest
        ELSE IF max_days > 0 /\ card.age # NoAge /\ card.age > max_days THEN rest
        ELSE <<[job_id |-> card.id,
                days_old |-> IF card.age # NoAge THEN card.age ELSE -1]>> \o rest

(***************************************************************************)
(* _effective_keywords and the search plan.                                *)
(***************************************************************************)
RECURSIVE Dedup(_, _)
Dedup(s, got) ==
  IF s = <<>> THEN <<>>
  ELSE IF Head(s) \in got THEN Dedup(Tail(s), got)
  ELSE <<Head(s)>> \o Dedup(Tail(s), got \cup {Head(s)})

_effective_keywords(base, boost, exp_levels) ==
  Dedup(IF 2 \in Elems(exp_levels) /\ boost # <<>> THEN base \o boost ELSE base, {})

PlanFor(kws, exp_levels, category) ==
  LET L == Len(SEARCH_LOCATIONS)
  IN  [k \in 1..(Len(kws) * L) |->
         [keyword  |-> kws[((k - 1) \div L) + 1],
          location |-> SEARCH_LOCATIONS[((k - 1) % L) + 1],
          exp      |-> exp_levels,
          category |-> category]]

search_plan(sde_exp_levels, ai_exp_levels) ==
  LET effective_sde_exp == IF sde_exp_levels = <<>> THEN SDE_EXPERIENCE_LEVELS
                           ELSE sde_exp_levels
      effective_ai_exp  == IF ai_exp_levels = <<>> THEN AI_EXPERIENCE_LEVELS
                           ELSE ai_exp_levels
  IN  PlanFor(_effective_keywords(SDE_KEYWORDS, SDE_BOOST_KEYWORDS, effective_sde_exp),
              effective_sde_exp, "sde")
      \o
      PlanFor(_effective_keywords(AI_KEYWORDS, AI_BOOST_KEYWORDS, effective_ai_exp),
              effective_ai_exp, "ai")

(***************************************************************************)
(* Phase 1 bookkeeping.                                                    *)
(***************************************************************************)
Total(cnd) == Len(cnd["sde"]) + Len(cnd["ai"])

\* the loop over new_cards without the test of the run-wide maximum
RECURSIVE AddCards_NoMax(_, _, _)
AddCards_NoMax(new_cards, category, st) ==
  IF new_cards = <<>> THEN st
  ELSE
    LET c == Head(new_cards)
        item == [job_id |-> c.job_id, days_old |-> c.days_old, category |-> category]
    IN  AddCards_NoMax(Tail(new_cards), category,
                 [all_ids |-> st.all_ids \cup {c.job_id},
                  seen    |-> st.seen \cup {c.job_id},
                  cand    |-> [st.cand EXCEPT ![category] = Append(@, item)]])

\* the loop over new_cards with seen.add moved before the test of the maximum
RECURSIVE AddCards_SeenFirst(_, _, _)
AddCards_SeenFirst(new_cards, category, st) ==
  IF new_cards = <<>> THEN st
  ELSE
    LET c == Head(new_cards)
        item == [job_id |-> c.job_id, days_old |-> c.days_old, category |-> category]
        st1 == [st EXCEPT !.seen = @ \cup {c.job_id}]
    IN  IF Total(st.cand) >= MAX_JOBS_PER_RUN THEN st1
        ELSE AddCards_SeenFirst(Tail(new_cards), category,
                 [all_ids |-> st1.all_ids \cup {c.job_id},
                  seen    |-> st1.seen,
                  cand    |-> [st1.cand EXCEPT ![category] = Append(@, item)]])

\* the loop over new_cards: stop at the run-wide maximum, else record the
\* identifier in all_ids and seen and append to the category's list
RECURSIVE AddCards(_, _, _)
AddCards(new_cards, category, st) ==
  IF new_cards = <<>> THEN st
  ELSE IF Total(st.cand) >= MAX_JOBS_PER_RUN THEN st
  ELSE
    LET c == Head(new_cards)
        item == [job_id |-> c.job_id, days_old |-> c.days_old, category |-> category]
    IN  AddCards(Tail(new_cards), category,
                 [all_ids |-> st.all_ids \cup {c.job_id},
                  seen    |-> st.seen \cup {c.job_id},
                  cand    |-> [st.cand EXCEPT ![category] = Append(@, item)]])

\* candidates.sort(key = days_old if days_old >= 0 else 999): stable
SortKey(c) == IF c.days_old >= 0 THEN c.days_old ELSE 999

RECURSIVE InsertSorted(_, _)
InsertSorted(c, s) ==
  IF s = <<>> THEN <<c>>
  ELSE IF SortKey(Head(s)) <= SortKey(c) THEN <<Head(s)>> \o InsertSorted(c, Tail(s))
  ELSE <<c>> \o s

RECURSIVE SortByAge(_)
SortByAge(s) ==
  IF s = <<>> THEN <<>>
  ELSE InsertSorted(s[Len(s)], SortByAge(SubSeq(s, 1, Len(s) - 1)))

\* _split_by_category on items that carry the category tag
OfCat(js, category) ==
  SelectSeq(js, LAMBDA j : IF category = "ai" THEN j.category = "ai"
                           ELSE j.category # "ai")

Shortfall(category) == Max(0, TARGET[category] - Len(acc[category]))

(***************************************************************************)
(* Initial state: configuration loaded, seen file on disk, nothing run.    *)
(***************************************************************************)
IdleEngine ==
  /\ sphase = "idle"
  /\ seen_in = {}
  /\ plan = <<>>
  /\ eff_days = 0
  /\ all_ids = {}
  /\ cand = [c \in Cats |-> <<>>]
  /\ search_idx = 0
  /\ page_num = 0
  /\ load_failed = FALSE
  /\ candidates = <<>>
  /\ jobs = <<>>

IdlePipeline ==
  /\ fut = <<>>
  /\ tailor = <<>>
  /\ cover = <<>>
  /\ rendered = <<>>
  /\ ret = <<>>
  /\ rt_CLAUDE_LIMIT_HIT = FALSE
  /\ cl_CLAUDE_LIMIT_HIT = FALSE
  /\ rt_FALLBACK_LOCK = 0
  /\ cl_FALLBACK_LOCK = 0
  /\ quota_errors = [rt |-> 0, cl |-> 0]

NoResult == [none |-> TRUE]          \* a None slot of results

NoTwin == [run |-> 0, cat |-> "sde", shown |-> <<>>, first |-> <<>>]

IdleNotifier ==
  /\ lines = <<>>
  /\ line_no = 0
  /\ chunk = <<>>
  /\ chunk_len = 0
  /\ posts = <<>>

IdleCli ==
  /\ disk = {}
  /\ dirs = {}
  /\ cmd = "idle"
  /\ failed = <<>>
  /\ retry_results = <<>>
  /\ result = NoResult
  /\ ok = -1
  /\ retry_job = NoResult
  /\ called = <<>>
  /\ invoked = {}

NoFetches == [call |-> 0, n |-> 0]

IdleSide ==
  /\ twin = NoTwin
  /\ fetched = NoFetches
  /\ IdleNotifier
  /\ IdleCli

Init ==
  /\ TARGET \in [Cats -> 0..MaxTarget]
  /\ MAX_JOBS_PER_RUN \in 1..MaxRun
  /\ seenFile \in {{}, {1}}
  /\ seen = {}
  /\ pc = "start"
  /\ IdleEngine
  /\ acc = [c \in Cats |-> <<>>]
  /\ stage = 0
  /\ selected = <<>>
  /\ manifest = <<>>
  /\ results = <<>>
  /\ report = [sent |-> FALSE, results |-> <<>>]
  /\ LLM_MODE = "claude"
  /\ IdlePipeline
  /\ IdleSide

(***************************************************************************)
(* scrape_with_playwright                                                  *)
(***************************************************************************)
\* entry of a call: parameters bound, plan built, phase-1 lists empty
EngineCall(max_days, sde_exp, ai_exp, seenSet) ==
  /\ sphase' = "entry"
  /\ seen_in' = seenSet
  /\ plan' = search_plan(sde_exp, ai_exp)
  /\ eff_days' = max_days
  /\ all_ids' = {}
  /\ cand' = [c \in Cats |-> <<>>]
  /\ search_idx' = 1
  /\ page_num' = 0
  /\ load_failed' = FALSE
  /\ candidates' = <<>>
  /\ jobs' = <<>>

\* head of the loop over the search plan with break where the code has continue
PlanEntry_SkipStops ==
  /\ sphase = "entry"
  /\ IF search_idx > Len(plan)
       THEN sphase' = "trim" /\ UNCHANGED search_idx
     ELSE IF Len(cand[plan[search_idx].category])
               >= TARGET[plan[search_idx].category] * 2
       THEN sphase' = "trim" /\ UNCHANGED search_idx
     ELSE IF Total(cand) >= MAX_JOBS_PER_RUN
       THEN sphase' = "trim" /\ UNCHANGED search_idx
     ELSE sphase' = "page" /\ UNCHANGED search_idx
  /\ page_num' = 0
  /\ UNCHANGED <<cfgVars, sideVars, seenFile, seen, pc, seen_in, plan, eff_days, load_failed,
                 all_ids, cand, candidates, jobs, ctlVars, runVars, llmVars, jobVars>>

\* head of the loop over the search plan: early stopping
PlanEntry ==
  /\ sphase = "entry"
  /\ IF search_idx > Len(plan)
       THEN sphase' = "trim" /\ UNCHANGED search_idx
     ELSE IF Len(cand[plan[search_idx].category])
               >= TARGET[plan[search_idx].category] * 2
       THEN sphase' = "entry" /\ search_idx' = search_idx + 1
     ELSE IF Total(cand) >= MAX_JOBS_PER_RUN
       THEN sphase' = "trim" /\ UNCHANGED search_idx
     ELSE sphase' = "page" /\ UNCHANGED search_idx
  /\ page_num' = 0
  /\ UNCHANGED <<cfgVars, sideVars, seenFile, seen, pc, seen_in, plan, eff_days, load_failed,
                 all_ids, cand, candidates, jobs, ctlVars, runVars, llmVars, jobVars>>

\* page.goto raised and the loop over the search plan is left
PageLoadFails_EndsSearch ==
  /\ sphase = "page"
  /\ sphase' = "trim"
  /\ page_num' = 0
  /\ load_failed' = TRUE
  /\ UNCHANGED <<cfgVars, sideVars, seenFile, seen, pc, seen_in, plan, eff_days, all_ids,
                 cand, search_idx, candidates, jobs, ctlVars, runVars, llmVars, jobVars>>

\* page.goto raised: pagination of this plan entry ends
PageLoadFails ==
  /\ sphase = "page"
  /\ sphase' = "entry"
  /\ search_idx' = search_idx + 1
  /\ page_num' = 0
  /\ load_failed' = TRUE
  /\ UNCHANGED <<cfgVars, sideVars, seenFile, seen, pc, seen_in, plan, eff_days, all_ids,
                 cand, candidates, jobs, ctlVars, runVars, llmVars, jobVars>>

\* the body of a pagination loop that has no page limit
PageStep_NoPageLimit(cards, filler) ==
  LET e == plan[search_idx]
      new_cards == _parse_cards(cards, seen, all_ids, e.location, eff_days)
      st == AddCards(new_cards, e.category,
                     [all_ids |-> all_ids, seen |-> seen, cand |-> cand])
      total_cards == Len(cards) + filler
      stop == \/ Total(st.cand) >= MAX_JOBS_PER_RUN
              \/ total_cards * 10 < CARDS_PER_PAGE * 8
  IN  /\ all_ids' = st.all_ids
      /\ seen' = st.seen
      /\ cand' = st.cand
      /\ IF stop
           THEN sphase' = "entry" /\ search_idx' = search_idx + 1 /\ page_num' = 0
           ELSE sphase' = "page" /\ page_num' = page_num + 1 /\ UNCHANGED search_idx

\* the body of the pagination loop on a loaded page that shows `cards` (with
\* identifier) and `filler` further cards without one
PageStep(cards, filler) ==
  LET e == plan[search_idx]
      new_cards == _parse_cards(cards, seen, all_ids, e.location, eff_days)
      st == AddCards(new_cards, e.category,
                     [all_ids |-> all_ids, seen |-> seen, cand |-> cand])
      total_cards == Len(cards) + filler
      stop == \/ Total(st.cand) >= MAX_JOBS_PER_RUN
              \/ total_cards * 10 < CARDS_PER_PAGE * 8
              \/ page_num + 1 >= MAX_PAGES_PER_SEARCH
  IN  /\ all_ids' = st.all_ids
      /\ seen' = st.seen
      /\ cand' = st.cand
      /\ IF stop
           THEN sphase' = "entry" /\ search_idx' = search_idx + 1 /\ page_num' = 0
           ELSE sphase' = "page" /\ page_num' = page_num + 1 /\ UNCHANGED search_idx

\* one iteration of the pagination loop, on any page the source can show
FetchPage ==
  /\ sphase = "page"
  /\ \E cards \in SeqsUpTo(Cards, MaxCards), filler \in {0, CARDS_PER_PAGE} :
       PageStep(cards, filler)
  /\ UNCHANGED <<cfgVars, sideVars, seenFile, pc, seen_in, plan, eff_days, load_failed,
                 candidates, jobs, ctlVars, runVars, llmVars, jobVars>>

\* trim to target, return [] when nothing was selected, else sort for phase 2
Trim ==
  /\ sphase = "trim"
  /\ LET selected_sde == Take(cand["sde"], TARGET["sde"])
         selected_ai  == Take(cand["ai"], TARGET["ai"])
         cs == selected_sde \o selected_ai
     IN  IF cs = <<>>
           THEN sphase' = "ret" /\ candidates' = <<>>
           ELSE sphase' = "phase2" /\ candidates' = SortByAge(cs)
  /\ jobs' = <<>>
  /\ UNCHANGED <<cfgVars, sideVars, seenFile, seen, pc, seen_in, plan, eff_days, load_failed,
                 all_ids, cand, search_idx, page_num, ctlVars, runVars, llmVars, jobVars>>

\* {**candidate, "description": description}
_fetch_jd(c) ==
  [job_id |-> c.job_id, days_old |-> c.days_old, category |-> c.category,
   description |-> PostingJD(c.job_id)]

\* the phase-2 loop left at the first candidate whose fetch gives nothing
FetchJD_StopsOnFailure ==
  /\ sphase = "phase2"
  /\ LET job == _fetch_jd(candidates[Len(jobs) + 1])
     IN  IF job.description = ""
           THEN sphase' = "ret" /\ UNCHANGED jobs
           ELSE /\ jobs' = Append(jobs, job)
                /\ sphase' = IF Len(jobs) + 1 = Len(candidates) THEN "ret"
                              ELSE "phase2"
  /\ UNCHANGED <<cfgVars, sideVars, seenFile, seen, pc, seen_in, plan, eff_days,
                 load_failed, all_ids, cand, search_idx, page_num, candidates, ctlVars,
                 runVars, llmVars, jobVars>>

\* one iteration of the phase-2 loop; after the last one the call returns
FetchJD ==
  /\ sphase = "phase2"
  /\ jobs' = Append(jobs, _fetch_jd(candidates[Len(jobs) + 1]))
  /\ sphase' = IF Len(jobs) + 1 = Len(candidates) THEN "ret" ELSE "phase2"
  /\ UNCHANGED <<cfgVars, sideVars, seenFile, seen, pc, seen_in, plan, eff_days, load_failed,
                 all_ids, cand, search_idx, page_num, candidates, ctlVars, runVars,
                 llmVars, jobVars>>

(***************************************************************************)
(* get_new_jobs                                                            *)
(***************************************************************************)
\* run calls get_new_jobs: _load_seen, then the primary engine call
LoadAndPrimary ==
  /\ pc = "start"
  /\ seen' = seenFile
  /\ EngineCall(MAX_DAYS_OLD, <<>>, <<>>, seenFile)
  /\ pc' = "primary"
  /\ UNCHANGED <<cfgVars, sideVars, seenFile, ctlVars, runVars, llmVars, jobVars>>

\* the locals of a returned engine call are gone; its result stays in jobs
EngineReturned ==
  /\ sphase' = "idle"
  /\ seen_in' = {}
  /\ plan' = <<>>
  /\ eff_days' = 0
  /\ all_ids' = {}
  /\ cand' = [c \in Cats |-> <<>>]
  /\ search_idx' = 0
  /\ page_num' = 0
  /\ load_failed' = FALSE
  /\ candidates' = <<>>
  /\ UNCHANGED jobs

\* the primary call returned: split by category
AfterPrimary ==
  /\ pc = "primary" /\ sphase = "ret"
  /\ acc' = [c \in Cats |-> OfCat(jobs, c)]
  /\ pc' = "stages"
  /\ EngineReturned
  /\ UNCHANGED <<cfgVars, sideVars, seenFile, seen, stage, selected, runVars, llmVars, jobVars>>

\* the stage loop without the test of the shortfalls
StageCheck_NoBreak ==
  /\ pc = "stages"
  /\ IF stage >= Len(FALLBACK_STAGES)
       THEN /\ pc' = "final"
            /\ UNCHANGED <<stage, engVars>>
       ELSE LET s == FALLBACK_STAGES[stage + 1]
            IN  /\ EngineCall(s.max_days_old, s.sde_experience_levels,
                              s.ai_experience_levels, seen)
                /\ stage' = stage + 1
                /\ pc' = "stage"
  /\ UNCHANGED <<cfgVars, sideVars, seenFile, seen, acc, selected, runVars, llmVars, jobVars>>

\* head of the loop over FALLBACK_STAGES: leave when nothing is short or no
\* stage is left, else call the engine with the stage's overrides
StageCheck ==
  /\ pc = "stages"
  /\ IF stage >= Len(FALLBACK_STAGES)
        \/ (Shortfall("sde") = 0 /\ Shortfall("ai") = 0)
       THEN /\ pc' = "final"
            /\ UNCHANGED <<stage, engVars>>
       ELSE LET s == FALLBACK_STAGES[stage + 1]
            IN  /\ EngineCall(s.max_days_old, s.sde_experience_levels,
                              s.ai_experience_levels, seen)
                /\ stage' = stage + 1
                /\ pc' = "stage"
  /\ UNCHANGED <<cfgVars, sideVars, seenFile, seen, acc, selected, runVars, llmVars, jobVars>>

\* a fallback call returned: everything it returned is appended
AfterStage_NoSlice ==
  /\ pc = "stage" /\ sphase = "ret"
  /\ acc' = [c \in Cats |-> acc[c] \o OfCat(jobs, c)]
  /\ pc' = "stages"
  /\ EngineReturned
  /\ UNCHANGED <<cfgVars, sideVars, seenFile, seen, stage, selected, runVars, llmVars, jobVars>>

\* a fallback call returned: the last items it returned are appended
AfterStage_TakeLast ==
  /\ pc = "stage" /\ sphase = "ret"
  /\ acc' = [c \in Cats |->
               LET more == OfCat(jobs, c)
                   n    == Min(Shortfall(c), Len(more))
               IN  acc[c] \o SubSeq(more, Len(more) - n + 1, Len(more))]
  /\ pc' = "stages"
  /\ EngineReturned
  /\ UNCHANGED <<cfgVars, sideVars, seenFile, seen, stage, selected, runVars, llmVars, jobVars>>

\* a fallback call returned: append up to the shortfall per category
AfterStage ==
  /\ pc = "stage" /\ sphase = "ret"
  /\ acc' = [c \in Cats |-> acc[c] \o Take(OfCat(jobs, c), Shortfall(c))]
  /\ pc' = "stages"
  /\ EngineReturned
  /\ UNCHANGED <<cfgVars, sideVars, seenFile, seen, stage, selected, runVars, llmVars, jobVars>>

\* final = sde[:TARGET_SDE_JOBS] + ai[:TARGET_AI_JOBS]; return (final, seen).
\* The locals of get_new_jobs are gone after the return.
Final ==
  /\ pc = "final"
  /\ selected' = Take(acc["sde"], TARGET["sde"]) \o Take(acc["ai"], TARGET["ai"])
  /\ pc' = "got"
  /\ acc' = [c \in Cats |-> <<>>]
  /\ stage' = 0
  /\ jobs' = <<>>
  /\ UNCHANGED <<cfgVars, sideVars, seenFile, seen, sphase, seen_in, plan, eff_days,
                 load_failed, all_ids, cand, search_idx, page_num, candidates,
                 runVars, llmVars, jobVars>>

(***************************************************************************)
(* run: after get_new_jobs                                                 *)
(***************************************************************************)
\* success decided by the tailored document alone
process_job_result_HtmlOnly(job, html_path, pdf_path, cl_paths) ==
  [job          |-> job,
   html_path    |-> html_path,
   pdf_path     |-> pdf_path,
   cover_letter |-> cl_paths.cover_letter,
   why_company  |-> cl_paths.why_company,
   success      |-> (html_path # "None")]

\* the dict returned by process_job
process_job_result(job, html_path, pdf_path, cl_paths) ==
  [job          |-> job,
   html_path    |-> html_path,
   pdf_path     |-> pdf_path,
   cover_letter |-> cl_paths.cover_letter,
   why_company  |-> cl_paths.why_company,
   success      |-> (html_path # "None" /\ pdf_path # "None")]

\* the dict the dispatch loop stores when future.result() raises
FailedResult(job) ==
  [job |-> job, html_path |-> "None", pdf_path |-> "None",
   cover_letter |-> "None", why_company |-> "None", success |-> FALSE]

\* if not selected: send_discord_report([]); return
RunNoJobs ==
  /\ pc = "got"
  /\ selected = <<>>
  /\ report' = [sent |-> TRUE, results |-> <<>>]
  /\ pc' = "done"
  /\ UNCHANGED <<cfgVars, sideVars, seenFile, seen, engVars, ctlVars, manifest, results,
                 llmVars, jobVars>>

\* existing[j["url"]] = projection of j, in dict order; the url of a posting
\* is determined by its identifier
RECURSIVE DictPut(_, _)
DictPut(d, e) ==
  IF d = <<>> THEN <<e>>
  ELSE IF Head(d).job_id = e.job_id THEN <<e>> \o Tail(d)
  ELSE <<Head(d)>> \o DictPut(Tail(d), e)

\* the file written from the selected items alone
RECURSIVE MergeManifest_Overwrite(_, _)
MergeManifest_Overwrite(existing, js) ==
  IF js = <<>> THEN <<>>
  ELSE DictPut(MergeManifest_Overwrite(existing, SubSeq(js, 1, Len(js) - 1)),
               [job_id |-> js[Len(js)].job_id, category |-> js[Len(js)].category])

RECURSIVE MergeManifest(_, _)
MergeManifest(existing, js) ==
  IF js = <<>> THEN existing
  ELSE MergeManifest(DictPut(existing, [job_id |-> Head(js).job_id,
                                        category |-> Head(js).category]),
                     Tail(js))

WriteManifest ==
  /\ pc = "got"
  /\ selected # <<>>
  /\ manifest' = MergeManifest(manifest, selected)
  /\ pc' = "manifest"
  /\ UNCHANGED <<cfgVars, sideVars, seenFile, seen, engVars, ctlVars, results, report,
                 llmVars, jobVars>>

\* only the identifiers added by this run are written
SaveSeen_OnlyNew ==
  /\ pc = "flush"
  /\ seenFile' = seen \ seenFile
  /\ pc' = "report"
  /\ UNCHANGED <<cfgVars, sideVars, seen, engVars, ctlVars, runVars, llmVars, jobVars>>

\* _save_seen(SEEN_JOBS_FILE, seen)
SaveSeen ==
  /\ pc = "flush"
  /\ seenFile' = seen
  /\ pc' = "report"
  /\ UNCHANGED <<cfgVars, sideVars, seen, engVars, ctlVars, runVars, llmVars, jobVars>>

\* send_discord_report(results)
Report ==
  /\ pc = "report"
  /\ report' = [sent |-> TRUE, results |-> results]
  /\ pc' = "done"
  /\ UNCHANGED <<cfgVars, sideVars, seenFile, seen, engVars, ctlVars, manifest, results,
                 llmVars, jobVars>>

(***************************************************************************)
(* The dispatch block of run seen from outside the pool: every selected    *)
(* item ends with a process_job result or with the failed result.          *)
(***************************************************************************)
PoolOutcomes(job) ==
  { process_job_result(job, "html", "pdf", [cover_letter |-> "cl", why_company |-> "why"]),
    FailedResult(job) }

DispatchAll ==
  /\ pc = "manifest"
  /\ results' \in {r \in [1..Len(selected) -> UNION {PoolOutcomes(selected[i]) :
                                                     i \in 1..Len(selected)}] :
                     \A i \in 1..Len(selected) : r[i] \in PoolOutcomes(selected[i])}
  /\ pc' = "flush"
  /\ UNCHANGED <<cfgVars, sideVars, seenFile, seen, engVars, ctlVars, manifest, report,
                 llmVars, jobVars>>

(***************************************************************************)
(* Generation backends.  Which backend a mode selects in each module, and  *)
(* what one external invocation can come back with.                        *)
(***************************************************************************)
Modes == {"openai", "anthropic", "gemini", "groq", "ollama", "openclaw", "codex",
          "claude"}

\* resume_tailor._call_llm: openai | openclaw | codex | else claude
TailorBackend(mode) ==
  CASE mode = "openai"   -> "hosted"
    [] mode = "openclaw" -> "openclaw"
    [] mode = "codex"    -> "codex"
    [] OTHER             -> "claude"

\* cover_letter._run_claude: openai | anthropic | gemini | groq | ollama |
\* openclaw | codex | else claude
CoverBackend(mode) ==
  CASE mode \in {"openai", "anthropic", "gemini", "groq", "ollama"} -> "hosted"
    [] mode = "openclaw" -> "openclaw"
    [] mode = "codex"    -> "codex"
    [] OTHER             -> "claude"

\* the pool sized without regard to the mode
Workers_Configured(mode) == JOB_WORKERS

\* workers = 1 if llm_mode == "openclaw" else JOB_WORKERS
Workers(mode) == IF mode = "openclaw" THEN 1 ELSE JOB_WORKERS

\* an external invocation ends with exit code rc (a raised client error or
\* timeout counts as a failure without the keyword), with usable output or
\* not, and with or without the quota keyword in its error text
ExtOutcomes ==
  { [rc |-> 0, usable |-> TRUE,  kw |-> FALSE],
    [rc |-> 0, usable |-> FALSE, kw |-> FALSE],
    [rc |-> 1, usable |-> FALSE, kw |-> FALSE],
    [rc |-> 1, usable |-> FALSE, kw |-> TRUE] }

\* returncode != 0 and ("hit your limit" in err or "resets" in err)
QuotaSeen(backend, out) == backend = "claude" /\ out.rc # 0 /\ out.kw

Items == 1..Len(selected)
Running == {i \in Items : fut[i] = "running"}

(***************************************************************************)
(* run: the worker pool                                                    *)
(***************************************************************************)
\* the pool is filled without waiting for the manifest
SubmitAll_NoManifest ==
  /\ pc \in {"got", "manifest"}
  /\ results' = [i \in Items |-> NoResult]
  /\ fut' = [i \in Items |-> "pending"]
  /\ tailor' = [i \in Items |-> [st |-> "idle", html_path |-> "None"]]
  /\ cover' = [i \in Items |-> [st |-> "idle", cover_letter |-> "None",
                                why_company |-> "None"]]
  /\ rendered' = [i \in Items |-> "no"]
  /\ ret' = [i \in Items |-> NoResult]
  /\ pc' = "dispatch"
  /\ UNCHANGED <<cfgVars, sideVars, seenFile, seen, engVars, ctlVars, manifest, report, llmVars>>

\* results = [None] * len(selected); every item submitted to the pool
SubmitAll ==
  /\ pc = "manifest"
  /\ results' = [i \in Items |-> NoResult]
  /\ fut' = [i \in Items |-> "pending"]
  /\ tailor' = [i \in Items |-> [st |-> "idle", html_path |-> "None"]]
  /\ cover' = [i \in Items |-> [st |-> "idle", cover_letter |-> "None",
                                why_company |-> "None"]]
  /\ rendered' = [i \in Items |-> "no"]
  /\ ret' = [i \in Items |-> NoResult]
  /\ pc' = "dispatch"
  /\ UNCHANGED <<cfgVars, sideVars, seenFile, seen, engVars, ctlVars, manifest, report, llmVars>>

\* a free pool worker takes the oldest pending item; process_job submits its
\* two sub-tasks to the inner pool
StartJob(i) ==
  /\ pc = "dispatch"
  /\ fut[i] = "pending"
  /\ \A j \in Items : j < i => fut[j] # "pending"
  /\ Cardinality(Running) < Workers(LLM_MODE)
  /\ fut' = [fut EXCEPT ![i] = "running"]
  /\ tailor' = [tailor EXCEPT ![i].st = "new"]
  /\ cover' = [cover EXCEPT ![i].st = "call1"]
  /\ UNCHANGED <<cfgVars, sideVars, seenFile, seen, pc, engVars, ctlVars, runVars, llmVars,
                 rendered, ret>>

(***************************************************************************)
(* tailor_resume / _call_llm                                               *)
(***************************************************************************)
\* reading the base resumes raises, or _call_llm starts: the claude branch
\* tests the flag, the openclaw branch takes the module's lock
TailorBegin(i) ==
  /\ pc = "dispatch"
  /\ tailor[i].st = "new"
  /\ LET b == TailorBackend(LLM_MODE)
     IN  \/ /\ tailor' = [tailor EXCEPT ![i].st = "raised"]
            /\ UNCHANGED rt_FALLBACK_LOCK
         \/ /\ b = "claude"
            /\ tailor' = [tailor EXCEPT ![i].st =
                            IF rt_CLAUDE_LIMIT_HIT THEN "done" ELSE "inflight"]
            /\ UNCHANGED rt_FALLBACK_LOCK
         \/ /\ b = "openclaw"
            /\ rt_FALLBACK_LOCK = 0
            /\ rt_FALLBACK_LOCK' = i
            /\ tailor' = [tailor EXCEPT ![i].st = "inflight"]
         \/ /\ b \in {"hosted", "codex"}
            /\ tailor' = [tailor EXCEPT ![i].st = "inflight"]
            /\ UNCHANGED rt_FALLBACK_LOCK
  /\ UNCHANGED <<cfgVars, sideVars, seenFile, seen, pc, engVars, ctlVars, runVars,
                 rt_CLAUDE_LIMIT_HIT, cl_CLAUDE_LIMIT_HIT, cl_FALLBACK_LOCK,
                 quota_errors, fut, cover, rendered, ret>>

\* the external invocation ends, and any failed claude call sets the flag
TailorEnd_AnyFailure(i) ==
  /\ pc = "dispatch"
  /\ tailor[i].st = "inflight"
  /\ \E out \in ExtOutcomes :
       LET b == TailorBackend(LLM_MODE)
       IN  /\ rt_CLAUDE_LIMIT_HIT' = (rt_CLAUDE_LIMIT_HIT \/ (b = "claude" /\ out.rc # 0))
           /\ quota_errors' = IF QuotaSeen(b, out)
                                THEN [quota_errors EXCEPT !.rt = @ + 1]
                                ELSE quota_errors
           /\ tailor' = [tailor EXCEPT ![i] =
                [st |-> "done",
                 html_path |-> IF out.rc = 0 /\ out.usable THEN "html" ELSE "None"]]
  /\ rt_FALLBACK_LOCK' = IF rt_FALLBACK_LOCK = i THEN 0 ELSE rt_FALLBACK_LOCK
  /\ UNCHANGED <<cfgVars, sideVars, seenFile, seen, pc, engVars, ctlVars, runVars,
                 cl_CLAUDE_LIMIT_HIT, cl_FALLBACK_LOCK, fut, cover, rendered, ret>>

\* the external invocation ends; the rest of tailor_resume runs
TailorEnd(i) ==
  /\ pc = "dispatch"
  /\ tailor[i].st = "inflight"
  /\ \E out \in ExtOutcomes :
       LET b == TailorBackend(LLM_MODE)
       IN  /\ rt_CLAUDE_LIMIT_HIT' = (rt_CLAUDE_LIMIT_HIT \/ QuotaSeen(b, out))
           /\ quota_errors' = IF QuotaSeen(b, out)
                                THEN [quota_errors EXCEPT !.rt = @ + 1]
                                ELSE quota_errors
           /\ tailor' = [tailor EXCEPT ![i] =
                [st |-> "done",
                 html_path |-> IF out.rc = 0 /\ out.usable THEN "html" ELSE "None"]]
  /\ rt_FALLBACK_LOCK' = IF rt_FALLBACK_LOCK = i THEN 0 ELSE rt_FALLBACK_LOCK
  /\ UNCHANGED <<cfgVars, sideVars, seenFile, seen, pc, engVars, ctlVars, runVars,
                 cl_CLAUDE_LIMIT_HIT, cl_FALLBACK_LOCK, fut, cover, rendered, ret>>

(***************************************************************************)
(* generate_cover_letter / _run_claude: two calls in sequence              *)
(***************************************************************************)
\* state after call k returned text (TRUE) or None
CoverAfter(c, k, text) ==
  IF k = 1
    THEN [c EXCEPT !.st = "call2",
                   !.cover_letter = IF text THEN "cl" ELSE "None"]
    ELSE [c EXCEPT !.st = "done",
                   !.why_company = IF text THEN "why" ELSE "None"]

CallNo(c) == IF c.st \in {"call1", "inflight1"} THEN 1 ELSE 2

\* _run_claude starts: the claude branch tests the flag, the openclaw branch
\* takes the module's lock
CoverBegin(i) ==
  /\ pc = "dispatch"
  /\ cover[i].st \in {"call1", "call2"}
  /\ LET b == CoverBackend(LLM_MODE)
         k == CallNo(cover[i])
         flying == IF k = 1 THEN "inflight1" ELSE "inflight2"
     IN  \/ /\ b = "claude"
            /\ cover' = [cover EXCEPT ![i] =
                           IF cl_CLAUDE_LIMIT_HIT THEN CoverAfter(@, k, FALSE)
                           ELSE [@ EXCEPT !.st = flying]]
            /\ UNCHANGED cl_FALLBACK_LOCK
         \/ /\ b = "openclaw"
            /\ cl_FALLBACK_LOCK = 0
            /\ cl_FALLBACK_LOCK' = i
            /\ cover' = [cover EXCEPT ![i].st = flying]
         \/ /\ b \in {"hosted", "codex"}
            /\ cover' = [cover EXCEPT ![i].st = flying]
            /\ UNCHANGED cl_FALLBACK_LOCK
  /\ UNCHANGED <<cfgVars, sideVars, seenFile, seen, pc, engVars, ctlVars, runVars,
                 rt_CLAUDE_LIMIT_HIT, cl_CLAUDE_LIMIT_HIT, rt_FALLBACK_LOCK,
                 quota_errors, fut, tailor, rendered, ret>>

\* the external invocation ends; returned text is written to its file, and
\* write_text may raise out of generate_cover_letter
CoverEnd(i) ==
  /\ pc = "dispatch"
  /\ cover[i].st \in {"inflight1", "inflight2"}
  /\ \E out \in ExtOutcomes, written \in BOOLEAN :
       LET b == CoverBackend(LLM_MODE)
           text == out.rc = 0 /\ out.usable
       IN  /\ cl_CLAUDE_LIMIT_HIT' = (cl_CLAUDE_LIMIT_HIT \/ QuotaSeen(b, out))
           /\ quota_errors' = IF QuotaSeen(b, out)
                                THEN [quota_errors EXCEPT !.cl = @ + 1]
                                ELSE quota_errors
           /\ text \/ written
           /\ cover' = [cover EXCEPT ![i] =
                          IF text /\ ~written THEN [@ EXCEPT !.st = "raised"]
                          ELSE CoverAfter(@, CallNo(@), text)]
  /\ cl_FALLBACK_LOCK' = IF cl_FALLBACK_LOCK = i THEN 0 ELSE cl_FALLBACK_LOCK
  /\ UNCHANGED <<cfgVars, sideVars, seenFile, seen, pc, engVars, ctlVars, runVars,
                 rt_CLAUDE_LIMIT_HIT, rt_FALLBACK_LOCK, fut, tailor, rendered, ret>>

(***************************************************************************)
(* process_job after both sub-tasks ended, and the dispatch loop of run    *)
(***************************************************************************)
\* resume_future.result(); cl_future.result() (either re-raises what its
\* sub-task raised); html_to_pdf when there is an html_path; the result dict
JoinJob(i) ==
  /\ pc = "dispatch"
  /\ fut[i] = "running"
  /\ tailor[i].st \in {"done", "raised"}
  /\ cover[i].st \in {"done", "raised"}
  /\ IF tailor[i].st = "raised" \/ cover[i].st = "raised"
       THEN /\ fut' = [fut EXCEPT ![i] = "raised"]
            /\ UNCHANGED <<rendered, ret>>
       ELSE \E pdf \in {"pdf", "None"} :
              LET html_path == tailor[i].html_path
                  pdf_path  == IF html_path # "None" THEN pdf ELSE "None"
              IN  /\ html_path = "None" => pdf = "None"
                  /\ rendered' = [rendered EXCEPT ![i] =
                                    IF html_path # "None" THEN pdf ELSE "no"]
                  /\ ret' = [ret EXCEPT ![i] =
                               process_job_result(selected[i], html_path, pdf_path,
                                                  cover[i])]
                  /\ fut' = [fut EXCEPT ![i] = "finished"]
  /\ UNCHANGED <<cfgVars, sideVars, seenFile, seen, pc, engVars, ctlVars, runVars, llmVars,
                 tailor, cover>>

\* the dispatch loop storing each result at the next free position
Collect_CompletionOrder(i) ==
  /\ pc = "dispatch"
  /\ fut[i] \in {"finished", "raised"}
  /\ LET k == 1 + Cardinality({j \in Items : fut[j] = "collected"})
     IN  results' = [results EXCEPT ![k] =
                       IF fut[i] = "finished" THEN ret[i]
                       ELSE FailedResult(selected[i])]
  /\ fut' = [fut EXCEPT ![i] = "collected"]
  /\ pc' = IF \A j \in Items \ {i} : fut[j] = "collected" THEN "flush" ELSE "dispatch"
  /\ UNCHANGED <<cfgVars, sideVars, seenFile, seen, engVars, ctlVars, manifest, report,
                 llmVars, tailor, cover, rendered, ret>>

\* a raised future ends the dispatch loop instead of being recorded
Collect_Abort(i) ==
  /\ pc = "dispatch"
  /\ fut[i] \in {"finished", "raised"}
  /\ results' = IF fut[i] = "finished" THEN [results EXCEPT ![i] = ret[i]]
                ELSE results
  /\ fut' = [fut EXCEPT ![i] = "collected"]
  /\ pc' = IF fut[i] = "raised" \/ \A j \in Items \ {i} : fut[j] = "collected"
             THEN "flush" ELSE "dispatch"
  /\ UNCHANGED <<cfgVars, sideVars, seenFile, seen, engVars, ctlVars, manifest, report,
                 llmVars, tailor, cover, rendered, ret>>

\* one iteration of "for future in as_completed(...)"; after the last one the
\* pool is left
Collect(i) ==
  /\ pc = "dispatch"
  /\ fut[i] \in {"finished", "raised"}
  /\ results' = [results EXCEPT ![i] =
                   IF fut[i] = "finished" THEN ret[i] ELSE FailedResult(selected[i])]
  /\ fut' = [fut EXCEPT ![i] = "collected"]
  /\ pc' = IF \A j \in Items \ {i} : fut[j] = "collected" THEN "flush" ELSE "dispatch"
  /\ UNCHANGED <<cfgVars, sideVars, seenFile, seen, engVars, ctlVars, manifest, report,
                 llmVars, tailor, cover, rendered, ret>>

(***************************************************************************)
(* Specifications.                                                         *)
(***************************************************************************)
\* the whole run, the worker pool seen from outside
Next ==
  \/ LoadAndPrimary
  \/ PlanEntry
  \/ PageLoadFails
  \/ FetchPage
  \/ Trim
  \/ FetchJD
  \/ AfterPrimary
  \/ StageCheck
  \/ AfterStage
  \/ Final
  \/ RunNoJobs
  \/ WriteManifest
  \/ DispatchAll
  \/ SaveSeen
  \/ Report

Spec == Init /\ [][Next]_vars

\* a posting as get_new_jobs returns it
JobOf(id, category) ==
  [job_id |-> id, days_old |-> IF PostingAge(id) # NoAge THEN PostingAge(id) ELSE -1,
   category |-> category, description |-> PostingJD(id)]

\* run from the return of get_new_jobs with n selected postings
InitPipe ==
  /\ TARGET = [c \in Cats |-> MaxTarget]
  /\ MAX_JOBS_PER_RUN = MaxRun
  /\ LLM_MODE \in Modes
  /\ seenFile = {MaxId}
  /\ \E n \in 1..MaxJobs :
       selected = [i \in 1..n |-> JobOf(i, IF i <= MaxTarget THEN "sde" ELSE "ai")]
  /\ seen = seenFile \cup {selected[i].job_id : i \in 1..Len(selected)}
  /\ pc = "got"
  /\ IdleEngine
  /\ acc = [c \in Cats |-> <<>>]
  /\ stage = 0
  /\ manifest = <<>>
  /\ results = <<>>
  /\ report = [sent |-> FALSE, results |-> <<>>]
  /\ IdlePipeline
  /\ IdleSide

NextPipe ==
  \/ WriteManifest
  \/ SubmitAll
  \/ \E i \in Items : StartJob(i)
  \/ \E i \in Items : TailorBegin(i)
  \/ \E i \in Items : TailorEnd(i)
  \/ \E i \in Items : CoverBegin(i)
  \/ \E i \in Items : CoverEnd(i)
  \/ \E i \in Items : JoinJob(i)
  \/ \E i \in Items : Collect(i)
  \/ SaveSeen
  \/ Report

SpecPipe == InitPipe /\ [][NextPipe]_vars

\* {k: j[k] for k in (...) if k in j}: the projection the manifest keeps
ManifestEntry(j) == [job_id |-> j.job_id, category |-> j.category]

\* a manifest an earlier run of the day has written: one entry per url
Manifests ==
  {m \in SeqsUpTo({ManifestEntry(JobOf(i, c)) : i \in Ids, c \in Cats}, MaxOld) :
     \A k, n \in 1..Len(m) : k # n => m[k].job_id # m[n].job_id}

\* lists get_new_jobs can return: a posting has one category in a list
Selections ==
  {js \in SeqsUpTo({JobOf(i, c) : i \in Ids, c \in Cats}, MaxJobs) :
     /\ js # <<>>
     /\ \A k, n \in 1..Len(js) :
          js[k].job_id = js[n].job_id => js[k].category = js[n].category}

\* run at the return of get_new_jobs, on a day that already has a manifest
InitManifest ==
  /\ TARGET = [c \in Cats |-> MaxTarget]
  /\ MAX_JOBS_PER_RUN = MaxRun
  /\ LLM_MODE = "openai"
  /\ seenFile = {}
  /\ selected \in Selections
  /\ seen = {selected[i].job_id : i \in 1..Len(selected)}
  /\ pc = "got"
  /\ IdleEngine
  /\ acc = [c \in Cats |-> <<>>]
  /\ stage = 0
  /\ manifest \in Manifests
  /\ results = <<>>
  /\ report = [sent |-> FALSE, results |-> <<>>]
  /\ IdlePipeline
  /\ IdleSide

NextManifest == WriteManifest

SpecManifest == InitManifest /\ [][NextManifest]_vars

(***************************************************************************)
(* get_new_jobs with the page loads of each engine call counted: call 0 is *)
(* the primary one, call k the one of fallback stage k.                    *)
(***************************************************************************)
\* one more page load attempted by the running engine call
CountFetch ==
  fetched' = [call |-> stage, n |-> IF fetched.call = stage THEN fetched.n + 1 ELSE 1]

\* the page loads the running engine call has attempted
Fetches == IF fetched.call = stage THEN fetched.n ELSE 0

\* page.goto raised, counted as an attempted page load
CountPageLoadFails ==
  /\ sphase = "page"
  /\ sphase' = "entry"
  /\ search_idx' = search_idx + 1
  /\ page_num' = 0
  /\ load_failed' = TRUE
  /\ CountFetch
  /\ UNCHANGED <<cfgVars, twin, notVars, cliVars, seenFile, seen, pc, seen_in, plan,
                 eff_days, all_ids, cand, candidates, jobs, ctlVars, runVars, llmVars,
                 jobVars>>

\* one iteration of the pagination loop on a loaded page, counted
CountFetchPage ==
  /\ sphase = "page"
  /\ \E cards \in SeqsUpTo(Cards, MaxCards), filler \in {0, CARDS_PER_PAGE} :
       PageStep(cards, filler)
  /\ CountFetch
  /\ UNCHANGED <<cfgVars, twin, notVars, cliVars, seenFile, pc, seen_in, plan,
                 eff_days, load_failed, candidates, jobs, ctlVars, runVars, llmVars,
                 jobVars>>

\* a run with a fresh seen file, a category of target 0 or both targets
\* alike, and the smallest or the largest run-wide maximum
InitBound ==
  /\ TARGET \in {[c \in Cats |-> IF c = "sde" THEN 0 ELSE MaxTarget],
                  [c \in Cats |-> 1], [c \in Cats |-> MaxTarget]}
  /\ MAX_JOBS_PER_RUN \in {1, MaxRun}
  /\ seenFile = {}
  /\ seen = {}
  /\ pc = "start"
  /\ IdleEngine
  /\ acc = [c \in Cats |-> <<>>]
  /\ stage = 0
  /\ selected = <<>>
  /\ manifest = <<>>
  /\ results = <<>>
  /\ report = [sent |-> FALSE, results |-> <<>>]
  /\ LLM_MODE = "claude"
  /\ IdlePipeline
  /\ IdleSide

NextBound ==
  \/ LoadAndPrimary
  \/ PlanEntry
  \/ CountPageLoadFails
  \/ CountFetchPage
  \/ Trim
  \/ FetchJD
  \/ AfterPrimary
  \/ StageCheck
  \/ AfterStage
  \/ Final

\* every step of get_new_jobs is a bounded wait (page.goto and the detail
\* fetch have timeouts), so a run that can take a step takes one
SpecBound == InitBound /\ [][NextBound]_vars /\ WF_vars(NextBound)

(***************************************************************************)
(* process_job seen from its caller: the files it leaves in the company    *)
(* directory and what it returns or raises.                                *)
(***************************************************************************)
\* <job_id>_<slug>.html, <name>-Resume-<company>.pdf,
\* <name>-CoverLetter-<company>.txt, <name>-Why<slug>.txt
File(company, kind, id) == [dir |-> company, kind |-> kind, job_id |-> id]

ItemFiles(j) ==
  LET c == PostingCompany(j.job_id)
  IN  {File(c, "html", j.job_id), File(c, "pdf", 0), File(c, "cover", 0),
       File(c, "why", 0)}

\* comp_dir.exists() and any(f.suffix == ".pdf" for f in comp_dir.iterdir())
has_pdf(d, company) == \E f \in d : f.dir = company /\ f.kind = "pdf"

\* how one process_job can go: tailor_resume raises, returns None or writes
\* the html; generate_cover_letter raises, writes both texts or none;
\* html_to_pdf, called when there is an html and nothing raised, writes the
\* pdf or returns None
ProcessRuns ==
  {o \in [tailor : {"raised", "None", "html"}, cover : {"raised", "None", "text"},
          pdf : BOOLEAN] :
     o.pdf => (o.tailor = "html" /\ o.cover # "raised")}

Written(j, o) ==
  LET c == PostingCompany(j.job_id)
  IN  (IF o.tailor = "html" THEN {File(c, "html", j.job_id)} ELSE {})
      \cup (IF o.cover = "text" THEN {File(c, "cover", 0), File(c, "why", 0)} ELSE {})
      \cup (IF o.pdf THEN {File(c, "pdf", 0)} ELSE {})

ProcessRaised(o) == o.tailor = "raised" \/ o.cover = "raised"

ProcessReturn(j, o) ==
  process_job_result(j, IF o.tailor = "html" THEN "html" ELSE "None",
                     IF o.pdf THEN "pdf" ELSE "None",
                     IF o.cover = "text"
                       THEN [cover_letter |-> "cl", why_company |-> "why"]
                       ELSE [cover_letter |-> "None", why_company |-> "None"])

(***************************************************************************)
(* cli: cmd_retry_day and cmd_retry                                        *)
(***************************************************************************)
CmdOver == {"idle", "day_returned", "day_raised", "one_returned", "one_raised"}

\* OUTPUT_DIR/<date>, as a member of dirs
today_dir == "today"

\* cmd_retry_day up to the loop: no manifest, or the scan for entries whose
\* directory has no pdf; nothing to retry returns at once
RetryDayScan ==
  /\ cmd \in CmdOver
  /\ LET todo == SelectSeq(manifest,
                           LAMBDA j : ~has_pdf(disk, PostingCompany(j.job_id)))
     IN  /\ failed' = todo
         /\ cmd' = IF todo = <<>> THEN "day_returned" ELSE "retry_day"
  /\ retry_results' = <<>>
  /\ result' = NoResult
  /\ ok' = -1
  /\ retry_job' = NoResult
  /\ called' = <<>>
  /\ dirs' = IF manifest = <<>> THEN dirs ELSE dirs \cup {today_dir}
  /\ UNCHANGED <<cfgVars, seenFile, seen, pc, engVars, ctlVars, runVars, llmVars,
                 jobVars, twin, notVars, cntVars, disk, invoked>>

\* one iteration of "for job in failed": the description is fetched again
\* (a failure there is caught), then process_job runs and its result is
\* appended; what process_job raises leaves cmd_retry_day
RetryDayItem ==
  /\ cmd = "retry_day"
  /\ Len(called) < Len(failed)
  /\ \E o \in ProcessRuns :
       LET j == failed[Len(called) + 1]
       IN  /\ called' = Append(called, j)
           /\ invoked' = invoked \cup {j.job_id}
           /\ disk' = disk \cup Written(j, o)
           /\ dirs' = dirs \cup {PostingCompany(j.job_id)}
           /\ IF ProcessRaised(o)
                THEN /\ cmd' = "day_raised"
                     /\ UNCHANGED <<result, retry_results>>
                ELSE /\ cmd' = "retry_day"
                     /\ result' = ProcessReturn(j, o)
                     /\ retry_results' = Append(retry_results, ProcessReturn(j, o))
  /\ UNCHANGED <<cfgVars, seenFile, seen, pc, engVars, ctlVars, runVars, llmVars,
                 jobVars, twin, notVars, cntVars, failed, ok, retry_job>>

\* ok = sum(r["success"] for r in results), logged; cmd_retry_day returns
RetryDayDone ==
  /\ cmd = "retry_day"
  /\ Len(called) = Len(failed)
  /\ ok' = Len(SelectSeq(retry_results, LAMBDA r : r.success))
  /\ cmd' = "day_returned"
  /\ UNCHANGED <<cfgVars, seenFile, seen, pc, engVars, ctlVars, runVars, llmVars,
                 jobVars, twin, notVars, cntVars, disk, dirs, failed, retry_results,
                 result, retry_job, called, invoked>>

\* what _fetch_jd of the cli finds in the h1 of the page, and the --title given
Titles == {"", "Engineer"}

\* cmd_retry that makes OUTPUT_DIR/<date> before it looks at the title
RetryFetch_MkdirFirst ==
  /\ cmd \in CmdOver
  /\ \E id \in Ids, category \in {"ai"}, raised \in BOOLEAN, h1 \in Titles,
        title \in Titles :
       LET job_title == IF title # "" THEN title ELSE h1
       IN  /\ cmd' = CASE raised         -> "one_raised"
                       [] job_title = "" -> "one_returned"
                       [] OTHER          -> "retry_one"
           /\ retry_job' = IF ~raised /\ job_title # ""
                             THEN [job_id |-> id, category |-> category]
                             ELSE NoResult
           /\ dirs' = IF ~raised THEN dirs \cup {today_dir} ELSE dirs
  /\ failed' = <<>>
  /\ retry_results' = <<>>
  /\ result' = NoResult
  /\ ok' = -1
  /\ called' = <<>>
  /\ UNCHANGED <<cfgVars, seenFile, seen, pc, engVars, ctlVars, runVars, llmVars,
                 jobVars, twin, notVars, cntVars, disk, invoked>>

\* cmd_retry (category left at its default) up to process_job: _fetch_jd
\* raises, or the title is empty after the override and the command logs the
\* error and returns, or OUTPUT_DIR/<date> is made and the job dict is ready
RetryFetch ==
  /\ cmd \in CmdOver
  /\ \E id \in Ids, category \in {"ai"}, raised \in BOOLEAN, h1 \in Titles,
        title \in Titles :
       LET job_title == IF title # "" THEN title ELSE h1
       IN  /\ cmd' = CASE raised         -> "one_raised"
                       [] job_title = "" -> "one_returned"
                       [] OTHER          -> "retry_one"
           /\ retry_job' = IF ~raised /\ job_title # ""
                             THEN [job_id |-> id, category |-> category]
                             ELSE NoResult
           /\ dirs' = IF ~raised /\ job_title # "" THEN dirs \cup {today_dir}
                       ELSE dirs
  /\ failed' = <<>>
  /\ retry_results' = <<>>
  /\ result' = NoResult
  /\ ok' = -1
  /\ called' = <<>>
  /\ UNCHANGED <<cfgVars, seenFile, seen, pc, engVars, ctlVars, runVars, llmVars,
                 jobVars, twin, notVars, cntVars, disk, invoked>>

\* result = process_job(job, today_dir) in cmd_retry
RetryProcess ==
  /\ cmd = "retry_one"
  /\ \E o \in ProcessRuns :
       /\ called' = <<retry_job>>
       /\ invoked' = invoked \cup {retry_job.job_id}
       /\ disk' = disk \cup Written(retry_job, o)
       /\ dirs' = dirs \cup {PostingCompany(retry_job.job_id)}
       /\ IF ProcessRaised(o)
            THEN cmd' = "one_raised" /\ UNCHANGED result
            ELSE cmd' = "one_returned" /\ result' = ProcessReturn(retry_job, o)
  /\ UNCHANGED <<cfgVars, seenFile, seen, pc, engVars, ctlVars, runVars, llmVars,
                 jobVars, twin, notVars, cntVars, failed, retry_results, ok, retry_job>>

\* the cli after a run wrote the day's manifest and nothing was generated
InitRetry ==
  /\ TARGET = [c \in Cats |-> MaxTarget]
  /\ MAX_JOBS_PER_RUN = MaxRun
  /\ LLM_MODE = "openai"
  /\ manifest \in {m \in Manifests :
                     \A k \in 1..Len(m) :
                       m[k].category = IF m[k].job_id <= MaxTarget THEN "sde" ELSE "ai"}
  /\ seenFile = {manifest[k].job_id : k \in 1..Len(manifest)}
  /\ seen = seenFile
  /\ selected = <<>>
  /\ pc = "done"
  /\ IdleEngine
  /\ acc = [c \in Cats |-> <<>>]
  /\ stage = 0
  /\ results = <<>>
  /\ report = [sent |-> FALSE, results |-> <<>>]
  /\ IdlePipeline
  /\ twin = NoTwin
  /\ fetched = NoFetches
  /\ IdleNotifier
  /\ disk = {}
  /\ dirs = IF manifest = <<>> THEN {}
            ELSE {today_dir} \cup {PostingCompany(manifest[k].job_id) :
                                     k \in 1..Len(manifest)}
  /\ cmd = "idle"
  /\ failed = <<>>
  /\ retry_results = <<>>
  /\ result = NoResult
  /\ ok = -1
  /\ retry_job = NoResult
  /\ called = <<>>
  /\ invoked = {}

NextRetry ==
  \/ RetryDayScan
  \/ RetryDayItem
  \/ RetryDayDone
  \/ RetryFetch
  \/ RetryProcess

SpecRetry == InitRetry /\ [][NextRetry]_vars

(***************************************************************************)
(* Two primary passes over listings that agree on every result page of the *)
(* queries of one category (twin.cat) and are free on the other category's. *)
(* The first pass records the pages the category's queries were shown and   *)
(* what it collected for the category; the second pass is shown the same    *)
(* pages.  The category's own queries are shown short pages (one page per   *)
(* query); the other category's queries are shown any pages.                *)
(***************************************************************************)
\* the page the first pass was shown for this query and page number, if any
Shown(idx, pg) == {p \in Elems(twin.shown) : p.idx = idx /\ p.page = pg}

PairPageLoadFails ==
  /\ twin.run \in {1, 2}
  /\ sphase = "page"
  /\ plan[search_idx].category # twin.cat
  /\ PageLoadFails

PairFetchPage ==
  /\ twin.run \in {1, 2}
  /\ sphase = "page"
  /\ \E cards \in SeqsUpTo(Cards, MaxCards), filler \in {0, CARDS_PER_PAGE} :
       LET own == plan[search_idx].category = twin.cat
           pg  == [idx |-> search_idx, page |-> page_num, cards |-> cards,
                   filler |-> filler]
       IN  /\ own => filler = 0
           /\ (own /\ twin.run = 2 /\ Shown(search_idx, page_num) # {})
                => pg \in Shown(search_idx, page_num)
           /\ PageStep(cards, filler)
           /\ twin' = IF own /\ twin.run = 1
                        THEN [twin EXCEPT !.shown = Append(@, pg)]
                        ELSE twin
  /\ UNCHANGED <<cfgVars, notVars, cntVars, cliVars, seenFile, pc, seen_in, plan, eff_days, load_failed,
                 candidates, jobs, ctlVars, runVars, llmVars, jobVars>>

\* phase 1 of the first pass is over: keep what it collected for the category
\* and start the second pass from the same seen file
PairSecond ==
  /\ twin.run = 1
  /\ pc = "primary"
  /\ sphase = "trim"
  /\ twin' = [twin EXCEPT !.run = 2, !.first = cand[twin.cat]]
  /\ seen' = seenFile
  /\ EngineCall(MAX_DAYS_OLD, <<>>, <<>>, seenFile)
  /\ UNCHANGED <<cfgVars, notVars, cntVars, cliVars, seenFile, pc, ctlVars, runVars, llmVars,
                 jobVars>>

InitPair ==
  /\ TARGET \in [Cats -> 1..MaxTarget]
  /\ MAX_JOBS_PER_RUN \in 1..MaxRun
  /\ seenFile = {}
  /\ seen = {}
  /\ pc = "start"
  /\ IdleEngine
  /\ acc = [c \in Cats |-> <<>>]
  /\ stage = 0
  /\ selected = <<>>
  /\ manifest = <<>>
  /\ results = <<>>
  /\ report = [sent |-> FALSE, results |-> <<>>]
  /\ LLM_MODE = "claude"
  /\ IdlePipeline
  /\ \E c \in Cats : twin = [run |-> 1, cat |-> c, shown |-> <<>>, first |-> <<>>]
  /\ fetched = NoFetches
  /\ IdleNotifier
  /\ IdleCli

NextPair ==
  \/ LoadAndPrimary
  \/ PlanEntry
  \/ PairPageLoadFails
  \/ PairFetchPage
  \/ PairSecond

SpecPair == InitPair /\ [][NextPair]_vars

(***************************************************************************)
(* notifier._send_chunked.  A line is modelled by its length; a payload by *)
(* the positions in `lines` of the lines it is made of, its length in      *)
(* characters and whether it is a line cut by line[:DISCORD_LIMIT].        *)
(***************************************************************************)
LineLens == {0, 1, DISCORD_LIMIT \div 2 - 1, DISCORD_LIMIT \div 2,
             DISCORD_LIMIT - 1, DISCORD_LIMIT, DISCORD_LIMIT + 600}

RECURSIVE SumLen(_, _)
SumLen(ls, ch) == IF ch = <<>> THEN 0 ELSE ls[Head(ch)] + SumLen(ls, Tail(ch))

\* len("\n".join(chunk))
JoinLen(ls, ch) == IF ch = <<>> THEN 0 ELSE SumLen(ls, ch) + (Len(ch) - 1)

\* flush() that posts the chunk and leaves it as it is
flush_KeepChunk(ls, st) ==
  [chunk |-> st.chunk, chunk_len |-> st.chunk_len,
   posts |-> IF st.chunk # <<>>
               THEN Append(st.posts, [lines |-> st.chunk,
                                      len |-> JoinLen(ls, st.chunk), cut |-> FALSE])
               ELSE st.posts]

\* flush(): post the joined chunk when there is one, then empty it
flush(ls, st) ==
  [chunk |-> <<>>, chunk_len |-> 0,
   posts |-> IF st.chunk # <<>>
               THEN Append(st.posts, [lines |-> st.chunk,
                                      len |-> JoinLen(ls, st.chunk), cut |-> FALSE])
               ELSE st.posts]

\* the loop body with an oversized line posted whole
ChunkStep_NoCut(ls, i, st) ==
  LET line_len == ls[i] + 1
  IN  IF line_len > DISCORD_LIMIT
        THEN LET f == flush(ls, st)
             IN  [f EXCEPT !.posts = Append(@, [lines |-> <<i>>, len |-> ls[i],
                                                cut |-> FALSE])]
        ELSE LET f == IF st.chunk_len + line_len > DISCORD_LIMIT THEN flush(ls, st)
                      ELSE st
             IN  [f EXCEPT !.chunk = Append(@, i), !.chunk_len = @ + line_len]

\* the body of "for line in lines" for the line at position i
ChunkStep(ls, i, st) ==
  LET line_len == ls[i] + 1
  IN  IF line_len > DISCORD_LIMIT
        THEN LET f == flush(ls, st)
             IN  [f EXCEPT !.posts = Append(@, [lines |-> <<i>>,
                                                len |-> Min(ls[i], DISCORD_LIMIT),
                                                cut |-> TRUE])]
        ELSE LET f == IF st.chunk_len + line_len > DISCORD_LIMIT THEN flush(ls, st)
                      ELSE st
             IN  [f EXCEPT !.chunk = Append(@, i), !.chunk_len = @ + line_len]

\* one iteration of the loop over lines
ChunkLine ==
  /\ pc = "report"
  /\ line_no < Len(lines)
  /\ LET st == ChunkStep(lines, line_no + 1,
                         [chunk |-> chunk, chunk_len |-> chunk_len, posts |-> posts])
     IN  /\ chunk' = st.chunk
         /\ chunk_len' = st.chunk_len
         /\ posts' = st.posts
  /\ line_no' = line_no + 1
  /\ UNCHANGED <<cfgVars, seenFile, seen, pc, engVars, ctlVars, runVars, llmVars,
                 jobVars, twin, lines, cliVars, cntVars>>

\* the flush() after the loop; _send_chunked returns
ChunkReturn ==
  /\ pc = "report"
  /\ line_no = Len(lines)
  /\ LET st == flush(lines, [chunk |-> chunk, chunk_len |-> chunk_len, posts |-> posts])
     IN  /\ chunk' = st.chunk
         /\ chunk_len' = st.chunk_len
         /\ posts' = st.posts
  /\ pc' = "done"
  /\ UNCHANGED <<cfgVars, seenFile, seen, engVars, ctlVars, runVars, llmVars,
                 jobVars, twin, lines, line_no, cliVars, cntVars>>

\* a report of 50 lines of 50 characters
FiftyLines == [i \in 1..50 |-> 50]

\* _send_chunked entered with any list of lines
InitChunk ==
  /\ TARGET = [c \in Cats |-> MaxTarget]
  /\ MAX_JOBS_PER_RUN = MaxRun
  /\ LLM_MODE = "openai"
  /\ seenFile = {}
  /\ seen = {}
  /\ selected = <<>>
  /\ pc = "report"
  /\ IdleEngine
  /\ acc = [c \in Cats |-> <<>>]
  /\ stage = 0
  /\ manifest = <<>>
  /\ results = <<>>
  /\ report = [sent |-> FALSE, results |-> <<>>]
  /\ IdlePipeline
  /\ twin = NoTwin
  /\ fetched = NoFetches
  /\ IdleCli
  /\ lines \in SeqsUpTo(LineLens, MaxLines) \cup {FiftyLines}
  /\ line_no = 0
  /\ chunk = <<>>
  /\ chunk_len = 0
  /\ posts = <<>>

NextChunk ==
  \/ ChunkLine
  \/ ChunkReturn

SpecChunk == InitChunk /\ [][NextChunk]_vars

(***************************************************************************)
(* Properties of the acquisition engine and the fallback controller (Spec) *)
(***************************************************************************)
IdsOf(js) == {js[k].job_id : k \in 1..Len(js)}
DistinctIds(js) == \A k, m \in 1..Len(js) : k # m => js[k].job_id # js[m].job_id

\* C1: no step of a run removes an identifier from the in-memory seen set or
\* from the persisted one: what was loaded stays in memory through the primary
\* pass and every fallback stage, and is in the file again after _save_seen.
C1_SeenMonotone ==
  [][seen \subseteq seen' /\ seenFile \subseteq seenFile']_vars

\* a flush after a fallback stage accepted posting 3 (too old for the primary
\* pass) on top of a loaded or earlier accepted posting 1
C1_Witness ==
  /\ pc = "report"
  /\ seenFile = {1, 2, 3}
  /\ IdsOf(selected) = {2, 3}

\* C2: every candidate an engine call has accepted has an identifier that was
\* not in the seen set passed to that call, and no identifier kept from the
\* primary pass or an earlier stage is accepted again by the running call.
C2_NoDuplicateEmission ==
  sphase # "idle" =>
    /\ \A c \in Cats : IdsOf(cand[c]) \cap seen_in = {}
    /\ IdsOf(jobs) \cap seen_in = {}
    /\ \A c, d \in Cats : IdsOf(cand[c]) \cap IdsOf(acc[d]) = {}
    /\ \A d \in Cats : IdsOf(acc[d]) \subseteq seen_in

\* a fallback call that has accepted a card while earlier postings are both
\* in the seen set it was given and in the accumulated list
C2_Witness ==
  /\ pc = "stage"
  /\ sphase = "page"
  /\ Total(cand) > 0
  /\ acc["sde"] # <<>>
  /\ IdsOf(acc["sde"]) \subseteq seen_in

\* C3: no two candidates of the list an engine call returns, and no two
\* candidates of the list get_new_jobs returns, have the same identifier.
C3_UniqueIds ==
  /\ sphase = "ret" => DistinctIds(jobs)
  /\ DistinctIds(selected)

\* C4: the per-category list accumulated by get_new_jobs never holds more than
\* the category's target, after the primary pass and after every fallback
\* stage, and neither does the final list.
C4_TargetBound ==
  \A c \in Cats :
    /\ Len(acc[c]) <= TARGET[c]
    /\ Len(OfCat(selected, c)) <= TARGET[c]

\* a stage has returned two postings of a category that was one short
C4_Witness ==
  /\ pc = "stages"
  /\ stage = 1
  /\ \E c \in Cats :
       /\ TARGET[c] = 2
       /\ Len(acc[c]) = 2
       /\ Len(OfCat(jobs, c)) = 2
       /\ acc[c][1].job_id \notin IdsOf(jobs)

\* C5: a fallback stage calls the engine only when some category's shortfall
\* max(0, target - collected) is positive at that moment, and the stage called
\* is the next configured one, with its own overrides.
C5_StageOnlyWhenShort ==
  [][ (pc = "stages" /\ pc' = "stage") =>
        /\ Shortfall("sde") > 0 \/ Shortfall("ai") > 0
        /\ stage < Len(FALLBACK_STAGES)
        /\ stage' = stage + 1
        /\ eff_days' = FALLBACK_STAGES[stage + 1].max_days_old
        /\ plan' = search_plan(FALLBACK_STAGES[stage + 1].sde_experience_levels,
                               FALLBACK_STAGES[stage + 1].ai_experience_levels) ]_vars

\* the second stage is running for one category while the other has met its
\* positive target
C5_Witness ==
  /\ pc = "stage"
  /\ stage = 2
  /\ \E c \in Cats : TARGET[c] > 0 /\ Shortfall(c) = 0

\* C10: a returning fallback stage appends to each category's list exactly the
\* first min(shortfall, number returned) items the engine returned for that
\* category, in the engine's order, after everything accumulated before.
C10_AppendFirstShortfall ==
  [][ (pc = "stage" /\ pc' = "stages") =>
        \A c \in Cats :
          LET more == OfCat(jobs, c)
              n    == Min(Shortfall(c), Len(more))
          IN  /\ Len(acc'[c]) = Len(acc[c]) + n
              /\ \A k \in 1..Len(acc[c]) : acc'[c][k] = acc[c][k]
              /\ \A k \in 1..n : acc'[c][Len(acc[c]) + k] = more[k] ]_vars

\* target 2, one item from the primary pass, a stage that returned two items
\* of the category: the list is the primary item, then the stage's first item
C10_Witness ==
  /\ pc = "stages"
  /\ stage = 1
  /\ \E c \in Cats :
       /\ TARGET[c] = 2
       /\ Len(OfCat(jobs, c)) = 2
       /\ Len(acc[c]) = 2
       /\ acc[c][1].job_id \notin IdsOf(jobs)
       /\ acc[c][2] = OfCat(jobs, c)[1]
       /\ OfCat(jobs, c)[2].job_id \notin IdsOf(acc[c])

(***************************************************************************)
(* Properties of the per-item pipeline and the worker pool (SpecPipe)      *)
(***************************************************************************)
Raised(i) == tailor[i].st = "raised" \/ cover[i].st = "raised"
LimitObserved == rt_CLAUDE_LIMIT_HIT \/ cl_CLAUDE_LIMIT_HIT

\* C6: once a call to the claude backend has seen the quota keyword, no call
\* to that backend that starts afterwards, from tailoring or from the cover
\* letter sub-task, invokes the external tool.
C6_QuotaBreaker ==
  [][ LimitObserved =>
        \A i \in DOMAIN tailor :
          /\ (TailorBackend(LLM_MODE) = "claude" /\ tailor[i].st = "new")
               => tailor'[i].st # "inflight"
          /\ (CoverBackend(LLM_MODE) = "claude" /\ cover[i].st \in {"call1", "call2"})
               => cover'[i].st \notin {"inflight1", "inflight2"} ]_vars

\* C7: in every result, returned by process_job or stored by the dispatch
\* loop, success is true exactly when html_path and pdf_path are both present.
C7_SuccessIff ==
  \A i \in DOMAIN results :
    /\ results[i] # NoResult =>
         (results[i].success <=>
            (results[i].html_path # "None" /\ results[i].pdf_path # "None"))
    /\ ret[i] # NoResult =>
         (ret[i].success <=> (ret[i].html_path # "None" /\ ret[i].pdf_path # "None"))

\* one stored result succeeded and another has a tailored document that
\* failed to render
C7_Witness ==
  \E i, j \in DOMAIN results :
    /\ results[i] # NoResult /\ results[i].success
    /\ results[j] # NoResult /\ results[j].html_path = "html"
    /\ results[j].pdf_path = "None" /\ ~results[j].success

\* C8: when the cover letter sub-task of an item raised while tailoring
\* returned, the tailored document is still rendered and the stored result is
\* the one process_job builds with no cover letter handles.
C8_AuxFailureIsolated ==
  \A i \in DOMAIN fut :
    (fut[i] = "collected" /\ cover[i].st = "raised" /\ tailor[i].st = "done") =>
      /\ tailor[i].html_path # "None" => rendered[i] # "no"
      /\ results[i] =
           process_job_result(selected[i], tailor[i].html_path,
                              IF rendered[i] = "pdf" THEN "pdf" ELSE "None",
                              [cover_letter |-> "None", why_company |-> "None"])

\* C9: when run has finished, every dispatched item has its own result, the
\* failed result if its pipeline raised and the pipeline's result otherwise,
\* the seen set has been flushed and the report was sent with these results.
C9_ExceptionIsolated ==
  (pc = "done" /\ selected # <<>>) =>
    /\ \A i \in Items :
         /\ fut[i] = "collected"
         /\ results[i] # NoResult
         /\ results[i].job = selected[i]
         /\ results[i] = IF Raised(i) THEN FailedResult(selected[i]) ELSE ret[i]
    /\ seenFile = seen
    /\ report = [sent |-> TRUE, results |-> results]

\* a finished run in which one item's pipeline raised and another succeeded
C9_Witness ==
  /\ pc = "done"
  /\ \E i, j \in DOMAIN fut : Raised(i) /\ ~Raised(j) /\ results[j].success

(***************************************************************************)
(* Further properties of the acquisition engine (Spec)                     *)
(***************************************************************************)
\* C11: while a fallback stage runs, a category whose shortfall was zero when
\* the stage started has no search query issued for it, has no card accepted,
\* and every identifier the stage added to the seen set belongs to a category
\* that was short.
C11_StageSearchesOnlyShort ==
  pc = "stage" =>
    /\ \A c \in Cats :
         Shortfall(c) = 0 =>
           /\ ~(sphase = "page" /\ plan[search_idx].category = c)
           /\ cand[c] = <<>>
    /\ seen \ seen_in \subseteq
         UNION {IdsOf(cand[c]) : c \in {d \in Cats : Shortfall(d) > 0}}

\* C13: when an engine call returns, the seen set is the seen set the call
\* was given united with the identifiers of the cards the call accepted in
\* phase 1; no identifier of a card rejected for its location or its age was
\* added.
C13_SeenAfterCall ==
  sphase = "ret" =>
    /\ seen = seen_in \cup IdsOf(cand["sde"]) \cup IdsOf(cand["ai"])
    /\ \A id \in seen \ seen_in :
         /\ \E k \in 1..Len(SEARCH_LOCATIONS) :
              _location_match(PostingLoc(id), SEARCH_LOCATIONS[k])
         /\ ~(eff_days > 0 /\ PostingAge(id) # NoAge /\ PostingAge(id) > eff_days)

\* the primary call returns with seen {1} given, posting 2 accepted and
\* returned alone, and seen {1, 2}
C13_Witness ==
  /\ pc = "primary"
  /\ sphase = "ret"
  /\ seen_in = {1}
  /\ Len(jobs) = 1
  /\ jobs[1].job_id = 2
  /\ seen = {1, 2}

(***************************************************************************)
(* Further properties of the worker pool (SpecPipe)                        *)
(***************************************************************************)
\* C18: in mode openclaw at most one process_job is in progress at any time;
\* in every other mode at most JOB_WORKERS are, and a pending item is taken
\* up whenever fewer than that are in progress.
C18_PoolSize ==
  pc = "dispatch" =>
    LET size == IF LLM_MODE = "openclaw" THEN 1 ELSE JOB_WORKERS
    IN  /\ Cardinality(Running) <= size
        /\ ((\E i \in Items : fut[i] = "pending") /\ Cardinality(Running) < size)
             => ENABLED (\E i \in Items : StartJob(i))

\* mode openclaw: one item's tailoring call is in flight while another item
\* waits for the only worker
C18_Witness ==
  /\ pc = "dispatch"
  /\ LLM_MODE = "openclaw"
  /\ \E i, j \in Items :
       /\ fut[i] = "running" /\ tailor[i].st = "inflight"
       /\ fut[j] = "pending"

C14_OneQuotaError ==
  /\ quota_errors.rt <= 1
  /\ quota_errors.cl <= 1

(***************************************************************************)
(* Properties of the report (SpecChunk)                                    *)
(***************************************************************************)
\* C20: every payload _send_chunked hands to _post is at most DISCORD_LIMIT
\* characters long; a line longer than DISCORD_LIMIT is posted alone, cut to
\* DISCORD_LIMIT characters.
C20_PayloadWithinLimit ==
  /\ \A k \in 1..Len(posts) : posts[k].len <= DISCORD_LIMIT
  /\ \A i \in 1..line_no :
       lines[i] > DISCORD_LIMIT =>
         \E k \in 1..Len(posts) :
           posts[k].lines = <<i>> /\ posts[k].len = DISCORD_LIMIT

\* a returned call that posted a joined chunk filling the budget and a line
\* cut to the budget
C20_Witness ==
  /\ pc = "done"
  /\ \E k, m \in 1..Len(posts) :
       /\ Len(posts[k].lines) = 2 /\ posts[k].len = DISCORD_LIMIT - 1
       /\ posts[m].cut /\ posts[m].len = DISCORD_LIMIT
       /\ lines[posts[m].lines[1]] > DISCORD_LIMIT

(***************************************************************************)
(* Properties of two primary passes (SpecPair)                             *)
(***************************************************************************)
\* C12: two primary passes that were shown the same result pages for the
\* queries of one category collect the same candidates for that category, and
\* trim them to the same selection, whatever the other category's queries
\* were shown, for every pair of targets and every run-wide maximum.
C12_IndependentPools ==
  (twin.run = 2 /\ sphase = "trim") =>
    /\ cand[twin.cat] = twin.first
    /\ Take(cand[twin.cat], TARGET[twin.cat]) = Take(twin.first, TARGET[twin.cat])

(***************************************************************************)
(* Properties of the retry commands (SpecRetry)                            *)
(***************************************************************************)
\* a step in which process_job was called for item j and returned
ProcessReturned(j) ==
  \/ /\ cmd = "retry_one" /\ cmd' = "one_returned"
     /\ retry_job = j
  \/ /\ cmd = "retry_day" /\ cmd' = "retry_day"
     /\ Len(called') = Len(called) + 1
     /\ called'[Len(called')] = j

\* C15: when process_job returns for an item it was called for before, the
\* item's directory holds a pdf exactly if the returned success flag is true,
\* and the call has added no file other than the item's own four paths.
C15_RepeatAgrees ==
  [][ \A id \in Ids, c \in Cats :
        LET j == [job_id |-> id, category |-> c]
        IN  (id \in invoked /\ ProcessReturned(j)) =>
              /\ has_pdf(disk', PostingCompany(id)) <=> result'.success
              /\ disk' \ disk \subseteq ItemFiles(j) ]_vars

\* C16: cmd_retry_day lists for retry exactly the manifest entries whose
\* directory holds no pdf at the scan, calls no pipeline when there is none,
\* and when it is over has called process_job once for each listed entry and
\* for nothing else.
C16_RetryDayExactlyOnce ==
  [][ /\ (cmd \in CmdOver /\ cmd' \in {"retry_day", "day_returned"}) =>
           /\ failed' = SelectSeq(manifest,
                           LAMBDA j : ~has_pdf(disk, PostingCompany(j.job_id)))
           /\ called' = <<>>
           /\ (failed' = <<>>) <=> (cmd' = "day_returned")
      /\ (cmd = "retry_day" /\ cmd' \in {"day_returned", "day_raised"}) =>
           called' = failed ]_vars

\* C17: a cmd_retry_day that had entries to retry ends only after every one
\* of them was processed, whatever happened to the others, and with the
\* number of successes logged.
C17_RetryDayRecovers ==
  (cmd \in {"day_returned", "day_raised"} /\ failed # <<>>) =>
    /\ called = failed
    /\ cmd = "day_returned"
    /\ ok = Len(SelectSeq(retry_results, LAMBDA r : r.success))
    /\ Len(retry_results) = Len(failed)

\* the positions of the lines of all posts, in the order they were posted
RECURSIVE PostedLines(_)
PostedLines(ps) == IF ps = <<>> THEN <<>> ELSE Head(ps).lines \o PostedLines(Tail(ps))

AllWithinLimit == \A i \in 1..Len(lines) : lines[i] <= DISCORD_LIMIT

\* C21 as stated: when no line is longer than DISCORD_LIMIT, a returned
\* _send_chunked has posted every line once, whole and in order, and each post
\* after the first starts with a line that would have made the post before it
\* longer than DISCORD_LIMIT.
C21_SplitOnlyOnOverflow ==
  (pc = "done" /\ AllWithinLimit) =>
    /\ PostedLines(posts) = [i \in 1..Len(lines) |-> i]
    /\ \A k \in 1..Len(posts) : posts[k].len = JoinLen(lines, posts[k].lines)
    /\ \A k \in 1..(Len(posts) - 1) :
         JoinLen(lines, Append(posts[k].lines, posts[k + 1].lines[1])) > DISCORD_LIMIT

\* C21 amended: the same, with the budget test the code makes: each post after
\* the first starts with a line that would have brought the lines of the post
\* before it, counted with one separator each, above DISCORD_LIMIT; 50 lines
\* of 50 characters go out in 2 posts.
C21_SplitOnSeparatorCount ==
  (pc = "done" /\ AllWithinLimit) =>
    /\ PostedLines(posts) = [i \in 1..Len(lines) |-> i]
    /\ \A k \in 1..Len(posts) : posts[k].len = JoinLen(lines, posts[k].lines)
    /\ \A k \in 1..(Len(posts) - 1) :
         JoinLen(lines, Append(posts[k].lines, posts[k + 1].lines[1])) + 1
           > DISCORD_LIMIT
    /\ lines = FiftyLines => Len(posts) = 2

\* the report of 50 lines of 50 characters has gone out in two posts
C21_Witness ==
  /\ pc = "done"
  /\ lines = FiftyLines
  /\ Len(posts) = 2
  /\ Len(posts[1].lines) + Len(posts[2].lines) = 50

\* C22: a cmd_retry that finds no title, extracted or given, returns without
\* a call of process_job, without a new directory and without a new file.
C22_NoTitleNoWork ==
  [][ (cmd \in CmdOver /\ cmd' = "one_returned") =>
        /\ retry_job' = NoResult
        /\ called' = <<>>
        /\ invoked' = invoked
        /\ dirs' = dirs
        /\ disk' = disk ]_vars

\* cmd_retry has returned for want of a title on a day with no output yet
C22_Witness ==
  /\ cmd = "one_returned"
  /\ retry_job = NoResult
  /\ called = <<>>
  /\ dirs = {}
  /\ disk = {}

\* C23: while process_job calls are dispatched the manifest holds every
\* selected item; the seen file holds the run's identifiers only when every
\* dispatched call has been collected, returned or raised; the report is sent
\* only with the seen file written.
C23_RunOrder ==
  /\ fut # <<>> =>
       \A i \in 1..Len(selected) :
         \E k \in 1..Len(manifest) : manifest[k] = ManifestEntry(selected[i])
  /\ seenFile = seen =>
       /\ fut # <<>>
       /\ \A i \in Items : fut[i] = "collected" /\ results[i] # NoResult
  /\ report.sent => seenFile = seen

\* a run is over with one pipeline that raised and one that returned
C23_Witness ==
  /\ pc = "done"
  /\ report.sent
  /\ seenFile = seen
  /\ \E i \in Items : results[i] = FailedResult(selected[i])
  /\ \E i \in Items : results[i] # NoResult /\ results[i].success

(***************************************************************************)
(* Properties of phase 1 and phase 2 of scrape_with_playwright (Spec)      *)
(***************************************************************************)
Phase1 == {"entry", "page", "trim"}

\* C24: the candidates of both categories together never outnumber
\* MAX_JOBS_PER_RUN, and in phase 1, once they are that many, no step loads a
\* result page or adds a candidate.
C24_RunMaximum ==
  /\ [](Total(cand) <= MAX_JOBS_PER_RUN)
  /\ [][ (sphase \in Phase1 /\ Total(cand) >= MAX_JOBS_PER_RUN) =>
           /\ cand' = cand
           /\ sphase # "page"
           /\ sphase' # "page" ]_vars

\* the maximum is reached with plan entries left whose category is not full
C24_Witness ==
  /\ sphase = "entry"
  /\ search_idx <= Len(plan)
  /\ Total(cand) = MAX_JOBS_PER_RUN
  /\ Len(cand[plan[search_idx].category]) < TARGET[plan[search_idx].category] * 2

\* C25: a plan entry reached when its category holds twice its target or
\* more is passed over without a page and the next entry is considered, so a
\* page is only ever loaded for a category of positive target.
C25_EarlyStop ==
  /\ [][ ( /\ sphase = "entry"
           /\ search_idx <= Len(plan)
           /\ Len(cand[plan[search_idx].category])
                >= TARGET[plan[search_idx].category] * 2 ) =>
           /\ sphase' = "entry"
           /\ search_idx' = search_idx + 1
           /\ cand' = cand ]_vars
  /\ [](sphase = "page" => TARGET[plan[search_idx].category] > 0)

\* every sde entry was passed over and a page of an ai entry is being loaded
C25_Witness ==
  /\ sphase = "page"
  /\ plan[search_idx].category = "ai"
  /\ TARGET["sde"] = 0
  /\ cand["sde"] = <<>>

\* C26: the step in which a page load fails leaves the candidates as they
\* are and goes on to the next plan entry; an engine call that has logged a
\* load failure is still in its plan loop, in its trim or in phase 2, or has
\* returned what phase 2 fetched, and holds every candidate it collected.
C26_LoadFailureEndsEntryOnly ==
  /\ [][ (~load_failed /\ load_failed') =>
           /\ sphase = "page"
           /\ sphase' = "entry"
           /\ search_idx' = search_idx + 1
           /\ cand' = cand
           /\ all_ids' = all_ids
           /\ seen' = seen ]_vars
  /\ [][ load_failed =>
           \/ ~load_failed'
           \/ \A c \in Cats :
                /\ Len(cand[c]) <= Len(cand'[c])
                /\ SubSeq(cand'[c], 1, Len(cand[c])) = cand[c] ]_vars
  /\ [](load_failed =>
          /\ sphase \in {"entry", "page", "trim", "phase2", "ret"}
          /\ sphase = "ret" => Len(jobs) = Len(candidates))

\* after a load failure that came with a candidate already collected, a later
\* plan entry has had a page loaded and phase 2 fetches the candidates
C26_Witness ==
  /\ load_failed
  /\ sphase = "phase2"
  /\ \E c \in Cats : Len(cand[c]) >= 2
  /\ Len(candidates) >= 2

\* a load failure was logged and a page of a later plan entry is loading
C26_WitnessLaterEntry ==
  /\ load_failed
  /\ sphase = "page"
  /\ Total(cand) > 0

\* C27: in the list phase 2 works through, known ages ascend and no
\* candidate of unknown age stands before one of known age.
C27_AgeOrder ==
  sphase \in {"phase2", "ret"} =>
    \A i \in 1..Len(candidates), j \in 1..Len(candidates) :
      i < j =>
        /\ (candidates[i].days_old >= 0 /\ candidates[j].days_old >= 0)
             => candidates[i].days_old <= candidates[j].days_old
        /\ ~(candidates[i].days_old < 0 /\ candidates[j].days_old >= 0)

IdSeq(js) == [k \in 1..Len(js) |-> js[k].job_id]

\* the identifiers a category's trimmed list holds, in the order phase 1
\* collected them: plan entry, then page, then card
Discovered(c) == IdSeq(Take(cand[c], TARGET[c]))

\* C28: the list an engine call returns holds each category's candidates in
\* the order phase 1 collected them, and get_new_jobs extends each category's
\* list, from which the final list is cut, by candidates in that order.
C28_DiscoveryOrder ==
  /\ [](sphase = "ret" => \A c \in Cats : IdSeq(OfCat(jobs, c)) = Discovered(c))
  /\ [][ (pc \in {"primary", "stage"} /\ pc' = "stages") =>
           \A c \in Cats :
             IdSeq(acc'[c]) = IdSeq(acc[c]) \o Take(Discovered(c), Shortfall(c)) ]_vars

\* C29: phase 2 appends to its output, for the candidates of its list in
\* their order, the candidate with its identifier, age and category as they
\* were and the description its detail page gave, empty when the fetch
\* raised; a returned call has one output for every candidate of the list.
C29_OneOutputPerCandidate ==
  sphase \in {"phase2", "ret"} =>
    /\ Len(jobs) <= Len(candidates)
    /\ \A k \in 1..Len(jobs) :
         /\ jobs[k].job_id = candidates[k].job_id
         /\ jobs[k].days_old = candidates[k].days_old
         /\ jobs[k].category = candidates[k].category
         /\ jobs[k].description = PostingJD(candidates[k].job_id)
    /\ sphase = "ret" => Len(jobs) = Len(candidates)

\* a call has returned a candidate whose fetch gave nothing and, after it,
\* one with a description
C29_Witness ==
  /\ sphase = "ret"
  /\ \E k \in 1..Len(jobs), m \in 1..Len(jobs) :
       /\ k < m
       /\ jobs[k].description = ""
       /\ jobs[m].description # ""

\* cards of any identifier and location whose age is unknown, zero, at the
\* ceiling, one day over it, or MaxAge
AgeCards(ceiling) ==
  [id : Ids, loc : CardLocs, age : {NoAge, 0, ceiling, ceiling + 1, MaxAge}]

\* C30: under a positive ceiling every collected candidate of known age is
\* no older than the ceiling; and whatever the ceiling, a card that is new
\* and matches the location is left out by _parse_cards exactly when the
\* ceiling is positive, the age is known and the age is over the ceiling.
C30_RecencyCeiling ==
  /\ sphase # "idle" =>
       \A c \in Cats : \A k \in 1..Len(cand[c]) :
         (eff_days > 0 /\ cand[c][k].days_old >= 0) => cand[c][k].days_old <= eff_days
  /\ sphase = "page" =>
       \A card \in AgeCards(eff_days) :
         LET location == plan[search_idx].location
             out == _parse_cards(<<card>>, seen, all_ids, location, eff_days)
         IN  ( /\ card.id \notin seen
               /\ card.id \notin all_ids
               /\ _location_match(card.loc, location) ) =>
               /\ (out = <<>>) <=>
                    (eff_days > 0 /\ card.age # NoAge /\ card.age > eff_days)
               /\ out # <<>> =>
                    /\ Len(out) = 1
                    /\ out[1].job_id = card.id
                    /\ out[1].days_old = IF card.age = NoAge THEN -1 ELSE card.age

\* under a positive ceiling a candidate of unknown age and one of known age
\* have been collected and a further page is loading
C30_Witness ==
  /\ sphase = "page"
  /\ eff_days > 0
  /\ \E c \in Cats : \E k \in 1..Len(cand[c]) : cand[c][k].days_old = -1
  /\ \E c \in Cats : \E k \in 1..Len(cand[c]) : cand[c][k].days_old >= 0

\* a fallback stage without ceiling has collected a candidate older than the
\* ceiling of the primary call
C30_WitnessNoCeiling ==
  /\ stage >= 1
  /\ eff_days = 0
  /\ \E c \in Cats : \E k \in 1..Len(cand[c]) : cand[c][k].days_old > MAX_DAYS_OLD

(***************************************************************************)
(* Properties of the generation backends (SpecPipe)                        *)
(***************************************************************************)
\* C31: in each module _CLAUDE_LIMIT_HIT is set only by the end of a claude
\* invocation of that module that exited non-zero with the quota keyword,
\* is never true without such an end having happened, and once true stays
\* true.
C31_FlagStickyAndSound ==
  /\ [](rt_CLAUDE_LIMIT_HIT => quota_errors.rt >= 1)
  /\ [](cl_CLAUDE_LIMIT_HIT => quota_errors.cl >= 1)
  /\ [][ /\ rt_CLAUDE_LIMIT_HIT => rt_CLAUDE_LIMIT_HIT'
         /\ cl_CLAUDE_LIMIT_HIT => cl_CLAUDE_LIMIT_HIT'
         /\ (~rt_CLAUDE_LIMIT_HIT /\ rt_CLAUDE_LIMIT_HIT') =>
              /\ TailorBackend(LLM_MODE) = "claude"
              /\ quota_errors'.rt = quota_errors.rt + 1
              /\ \E i \in Items : tailor[i].st = "inflight" /\ tailor'[i].st = "done"
         /\ (~cl_CLAUDE_LIMIT_HIT /\ cl_CLAUDE_LIMIT_HIT') =>
              /\ CoverBackend(LLM_MODE) = "claude"
              /\ quota_errors'.cl = quota_errors.cl + 1
              /\ \E i \in Items : cover[i].st \in {"inflight1", "inflight2"} ]_vars

\* the tailoring module's flag is set, the other module's is not, and a
\* tailoring call made afterwards has returned without an invocation
C31_Witness ==
  /\ rt_CLAUDE_LIMIT_HIT
  /\ ~cl_CLAUDE_LIMIT_HIT
  /\ quota_errors.rt = 1
  /\ pc = "done"
  /\ \A i \in Items : results[i] # NoResult /\ ~results[i].success

(***************************************************************************)
(* Properties of get_new_jobs as a whole (SpecBound)                       *)
(***************************************************************************)
\* C32: get_new_jobs returns in the end; the engine is entered only for the
\* primary call and once per fallback stage, so at most
\* 1 + Len(FALLBACK_STAGES) times; and no engine call attempts more page
\* loads than its plan has entries times MAX_PAGES_PER_SEARCH.
C32_BoundedWork ==
  /\ <>(pc = "got")
  /\ [](stage <= Len(FALLBACK_STAGES))
  /\ [][ (sphase = "idle" /\ sphase' # "idle") =>
           \/ pc = "start" /\ stage' = 0
           \/ stage' = stage + 1 ]_vars
  /\ [](sphase # "idle" => Fetches <= Len(plan) * MAX_PAGES_PER_SEARCH)
  /\ [](sphase = "page" => page_num < MAX_PAGES_PER_SEARCH)

\* the last fallback stage has loaded every page its plan allows
C32_Witness ==
  /\ stage = Len(FALLBACK_STAGES)
  /\ sphase = "trim"
  /\ Fetches = Len(plan) * MAX_PAGES_PER_SEARCH

\* C33: during the dispatch loop the result of a collected item sits at the
\* item's own position and the positions of the others are empty; when the
\* loop is left the result list is as long as the selected list and position
\* i holds a result for selected[i].
C33_ResultsByIndex ==
  /\ pc = "dispatch" =>
       \A i \in Items :
         /\ (fut[i] = "collected") <=> (results[i] # NoResult)
         /\ results[i] # NoResult => results[i].job = selected[i]
  /\ pc \in {"flush", "report", "done"} =>
       /\ Len(results) = Len(selected)
       /\ \A i \in Items : results[i] # NoResult /\ results[i].job = selected[i]

\* the second item was collected while the first is still being processed
C33_Witness ==
  /\ pc = "dispatch"
  /\ Len(selected) >= 2
  /\ fut[2] = "collected"
  /\ fut[1] = "running"
  /\ results[2] # NoResult
  /\ results[2].job = selected[2]
  /\ results[1] = NoResult

\* the external invocations in flight: tailoring and auxiliary calls alike
InFlight ==
  {<<"tailor", i>> : i \in {j \in DOMAIN tailor : tailor[j].st = "inflight"}}
    \cup
  {<<"cover", i>> : i \in {j \in DOMAIN cover :
                             cover[j].st \in {"inflight1", "inflight2"}}}

\* C34: in mode openclaw at most one external invocation is in flight at any
\* time, the tailoring call and the auxiliary-document calls counted together.
C34_OpenclawSingleFlight ==
  LLM_MODE = "openclaw" => Cardinality(InFlight) <= 1

\* C35: two items that run in the pool at the same time have different
\* company directories and no output path in common.
C35_DistinctPaths ==
  \A i \in DOMAIN fut : \A j \in DOMAIN fut :
    (i # j /\ fut[i] = "running" /\ fut[j] = "running") =>
      /\ PostingCompany(selected[i].job_id) # PostingCompany(selected[j].job_id)
      /\ ItemFiles(selected[i]) \cap ItemFiles(selected[j]) = {}

\* the tailored html of manifest entry j, the one path that only j's own
\* process_job writes; without it j's pipeline has never returned success
OwnHtml(j) == File(PostingCompany(j.job_id), "html", j.job_id)

\* C36: the scan of cmd_retry_day lists every manifest entry whose own
\* pipeline has not succeeded (its own html was never written), also when
\* another entry of the same company has left a pdf (only manifest entries
\* have been processed).
C36_RetryDayOwnSuccess ==
  [][ (/\ cmd \in CmdOver /\ cmd' \in {"retry_day", "day_returned"}
       /\ invoked \subseteq {manifest[k].job_id : k \in 1..Len(manifest)}) =>
        \A k \in 1..Len(manifest) :
          OwnHtml(manifest[k]) \notin disk =>
            \E n \in 1..Len(failed') : failed'[n] = manifest[k] ]_vars

\* C37: when get_new_jobs has returned, every identifier it added to the
\* seen set is the identifier of a candidate in the list it returned.
C37_SeenOnlyReturned ==
  pc = "got" => (seen \ seenFile) \subseteq IdsOf(selected)

\* C38: in every mode, a tailoring call and an auxiliary-document call that
\* are in flight together were sent to the same kind of backend.
C38_SameBackend ==
  \A i \in DOMAIN tailor : \A j \in DOMAIN cover :
    (<<"tailor", i>> \in InFlight /\ <<"cover", j>> \in InFlight) =>
      TailorBackend(LLM_MODE) = CoverBackend(LLM_MODE)

\* C39: _send_chunked, given a list that starts with a non-blank line as the
\* report does, never posts a payload whose content is the empty string.
C39_NoEmptyPayload ==
  (lines # <<>> /\ lines[1] > 0) => \A k \in 1..Len(posts) : posts[k].len > 0

====
